---- MODULE Spec2Model ----
(***************************************************************************)
(* A model of roles/lib_openshift/library/oadm_router.py:                  *)
(*   - Yedit, the path-addressed document editor (get, put, delete,        *)
(*     update, append),                                                    *)
(*   - Utils.check_def_equal, the structural comparator,                   *)
(*   - Router, one reconciliation pass of Router.run_ansible,              *)
(*   - the wrappers DeploymentConfig, ServiceAccount, Secret, RoleBinding. *)
(*                                                                         *)
(* Python values are tagged pairs <<tag, payload>>: the tag is compared    *)
(* first, so values of different Python types are simply unequal.          *)
(***************************************************************************)
EXTENDS Integers, Sequences, FiniteSets, TLC

VARIABLES
    \* ---- Yedit object -------------------------------------------------
    yaml_dict,   \* Yedit.__yaml_dict, the document root
    ylast,       \* the last Yedit call: op, path, value, what it returned
    yprev,       \* the Yedit call before the last one
    ynops,       \* number of Yedit calls made so far
    \* ---- Router pass --------------------------------------------------
    params,      \* module parameters: state, check_mode, edits, stats_password
    cluster,     \* what the cluster holds and how it will answer each call
    live,        \* Router.deploymentconfig/service/... as fetched by get()
    pc,          \* position inside Router.run_ansible
    calls,       \* the create/delete calls issued so far, in order
    parts,       \* Router.delete()'s list of results
    results,     \* Router.create()'s list of results
    todo,        \* kinds still to be visited by the running loop
    outcome,     \* what run_ansible returned (or the exception it raised)
    \* ---- Utils.check_def_equal -----------------------------------------
    cmp,         \* one call: its arguments and, once it returned, its answer
    \* ---- DeploymentConfig / ServiceAccount / Secret / RoleBinding ------
    wrap         \* one wrapper object: document, cached properties, calls

yvars == <<yaml_dict, ylast, yprev, ynops>>
rvars == <<params, cluster, live, pc, calls, parts, results, todo, outcome>>
cvars == <<cmp>>
wvars == <<wrap>>
vars == <<yaml_dict, ylast, yprev, ynops, params, cluster, live, pc, calls, parts,
          results, todo, outcome, cmp, wrap>>

-----------------------------------------------------------------------------
(* Python values *)

PyNone == <<"none", 0>>
PyInt(n) == <<"int", n>>
PyStr(s) == <<"str", s>>
PyDict(f) == <<"dict", f>>
PyList(s) == <<"list", s>>
\* an exception leaving the function instead of a return value
Raised(e) == <<"raised", e>>

EmptyDict == PyDict(<<>>)
EmptyList == PyList(<<>>)

IsDict(v) == v[1] = "dict"
IsList(v) == v[1] = "list"
IsRaised(v) == v[1] = "raised"

\* Python truthiness (bool(v))
Truthy(v) ==
    CASE v[1] = "none" -> FALSE
      [] v[1] = "int" -> v[2] # 0
      [] v[1] = "str" -> v[2] # ""
      [] v[1] = "dict" -> DOMAIN v[2] # {}
      [] v[1] = "list" -> Len(v[2]) > 0
      [] OTHER -> TRUE

\* len(v) of a list
PyLen(v) == Len(v[2])

\* key in d
HasKey(d, k) == k \in DOMAIN d[2]

\* d.get(k, None)
DictGet(d, k) == IF HasKey(d, k) THEN d[2][k] ELSE PyNone

\* d[k] = item on a copy
DictSet(d, k, item) ==
    PyDict([x \in (DOMAIN d[2]) \cup {k} |-> IF x = k THEN item ELSE d[2][x]])

\* del d[k]
DictDel(d, k) == PyDict([x \in (DOMAIN d[2]) \ {k} |-> d[2][x]])

\* A Python list index n (negative counts from the end) as a 1-based
\* position, 0 when data[n] raises IndexError.
ListPos(l, n) ==
    IF n >= 0 THEN (IF n <= PyLen(l) - 1 THEN n + 1 ELSE 0)
    ELSE (IF PyLen(l) + n >= 0 THEN PyLen(l) + n + 1 ELSE 0)

\* l[pos] = item on a copy
ListSet(l, pos, item) == PyList([l[2] EXCEPT ![pos] = item])

\* del l[pos]
ListDel(l, pos) ==
    PyList(SubSeq(l[2], 1, pos - 1) \o SubSeq(l[2], pos + 1, PyLen(l)))

-----------------------------------------------------------------------------
(* Yedit: the path grammar.  A path string is a sequence of characters. *)

Digits == {"0", "1", "2", "3", "4", "5", "6", "7", "8", "9"}
DigitSeq == <<"0", "1", "2", "3", "4", "5", "6", "7", "8", "9">>
Letters ==
    {"a", "b", "c", "d", "e", "f", "g", "h", "i", "j", "k", "l", "m",
     "n", "o", "p", "q", "r", "s", "t", "u", "v", "w", "x", "y", "z",
     "A", "B", "C", "D", "E", "F", "G", "H", "I", "J", "K", "L", "M",
     "N", "O", "P", "Q", "R", "S", "T", "U", "V", "W", "X", "Y", "Z"}

\* Yedit.com_sep
com_sep == {".", "#", "|", ":"}

\* the default separator of Yedit.__init__
separator == "."

\* the character class [0-9a-zA-Z%s/_-] with %s the separators not in use
KeyChars(sep) == Digits \cup Letters \cup (com_sep \ {sep}) \cup {"/", "_", "-"}

\* int(arr_ind) for the text between the brackets
RECURSIVE DigitsValue(_)
DigitsValue(ds) ==
    IF ds = <<>> THEN 0
    ELSE 10 * DigitsValue(SubSeq(ds, 1, Len(ds) - 1))
         + ((CHOOSE i \in 1..10 : DigitSeq[i] = ds[Len(ds)]) - 1)

IntOf(txt) ==
    IF txt[1] = "-" THEN 0 - DigitsValue(Tail(txt)) ELSE DigitsValue(txt)

\* the key text as a Python string
RECURSIVE Join(_)
Join(cs) == IF cs = <<>> THEN "" ELSE Head(cs) \o Join(Tail(cs))

\* end (exclusive) of the longest run of characters of class S from i
RECURSIVE RunEnd(_, _, _)
RunEnd(key, i, S) ==
    IF i <= Len(key) /\ key[i] \in S THEN RunEnd(key, i + 1, S) ELSE i

\* \[-?\d+\] matched at i: the position after the "]", or 0
IndexEnd(key, i) ==
    IF i <= Len(key) /\ key[i] = "["
    THEN LET d == IF i + 1 <= Len(key) /\ key[i + 1] = "-" THEN i + 2 ELSE i + 1
             e == RunEnd(key, d, Digits)
         IN  IF e > d /\ e <= Len(key) /\ key[e] = "]" THEN e + 1 ELSE 0
    ELSE 0

\* Yedit.parse_key: re.findall(re_key, key), a list of (arr_ind, dict_key)
RECURSIVE ParseFrom(_, _, _)
ParseFrom(key, i, sep) ==
    IF i > Len(key) THEN <<>>
    ELSE LET ie == IndexEnd(key, i)
             ke == RunEnd(key, i, KeyChars(sep))
         IN  IF ie # 0
             THEN <<[arr_ind |-> SubSeq(key, i + 1, ie - 2), dict_key |-> ""]>>
                  \o ParseFrom(key, ie, sep)
             ELSE IF ke > i
             THEN <<[arr_ind |-> <<>>, dict_key |-> Join(SubSeq(key, i, ke - 1))]>>
                  \o ParseFrom(key, ke, sep)
             ELSE ParseFrom(key, i + 1, sep)

\* The path strings of this model: each is parsed and validated once and
\* the result kept, every other string is parsed where it is used.

\* the path strings used: "", a, a.b, c.d, a[0], a[1], a[-1], a[0].b, and
\* a..b, which re_valid_key does not match
YPaths ==
    { <<>>,
      <<"a">>,
      <<"a", ".", "b">>,
      <<"c", ".", "d">>,
      <<"a", "[", "0", "]">>,
      <<"a", "[", "1", "]">>,
      <<"a", "[", "-", "1", "]">>,
      <<"a", "[", "0", "]", ".", "b">>,
      <<"a", ".", ".", "b">> }

\* "spec.replicas" (DeploymentConfig.replicas_path)
replicas_path ==
    <<"s", "p", "e", "c", ".", "r", "e", "p", "l", "i", "c", "a", "s">>

\* "spec.ports", the path needs_update reads on the rendered service
port_path ==
    <<"s", "p", "e", "c", ".", "p", "o", "r", "t", "s">>

\* "spec.template.spec.containers[0].env"
env_path ==
    <<"s", "p", "e", "c", ".", "t", "e", "m", "p", "l", "a", "t", "e", ".",
      "s", "p", "e", "c", ".", "c", "o", "n", "t", "a", "i", "n", "e", "r",
      "s", "[", "0", "]", ".", "e", "n", "v">>

\* "spec.template.spec.containers[0].ports"
container_ports_path ==
    <<"s", "p", "e", "c", ".", "t", "e", "m", "p", "l", "a", "t", "e", ".",
      "s", "p", "e", "c", ".", "c", "o", "n", "t", "a", "i", "n", "e", "r",
      "s", "[", "0", "]", ".", "p", "o", "r", "t", "s">>

\* ServiceAccount.secrets_path, ServiceAccount.image_pull_secrets_path
secrets_path == <<"s", "e", "c", "r", "e", "t", "s">>
image_pull_secrets_path ==
    <<"i", "m", "a", "g", "e", "P", "u", "l", "l", "S", "e", "c", "r", "e", "t", "s">>
\* Secret.secret_path
secret_path == <<"d", "a", "t", "a">>
\* RoleBinding.subjects_path, group_names_path, user_names_path
subjects_path == <<"s", "u", "b", "j", "e", "c", "t", "s">>
group_names_path == <<"g", "r", "o", "u", "p", "N", "a", "m", "e", "s">>
user_names_path == <<"u", "s", "e", "r", "N", "a", "m", "e", "s">>

KnownKeys ==
    YPaths \cup {replicas_path, port_path, env_path, container_ports_path}
    \cup {secrets_path, image_pull_secrets_path, secret_path, subjects_path,
          group_names_path, user_names_path}
ParsedKeys == [k \in KnownKeys |-> ParseFrom(k, 1, separator)]

parse_key(key, sep) ==
    IF sep = separator /\ key \in KnownKeys THEN ParsedKeys[key]
    ELSE ParseFrom(key, 1, sep)

\* re_valid_key matched from i: one or more (segment, optional any character)
\* groups up to the end of the string
RECURSIVE ValidFrom(_, _, _)
ValidFrom(key, i, sep) ==
    LET ie == IndexEnd(key, i)
        ke == RunEnd(key, i, KeyChars(sep))
        ends == (IF ie # 0 THEN {ie} ELSE {}) \cup ((i + 1)..ke)
    IN  \E j \in ends :
            \E n \in {j} \cup (IF j <= Len(key) THEN {j + 1} ELSE {}) :
                n = Len(key) + 1 \/ ValidFrom(key, n, sep)

\* the path strings of this model that re_valid_key matches
ValidKeys == {k \in KnownKeys : ValidFrom(k, 1, separator)}

\* Yedit.valid_key
valid_key(key, sep) ==
    IF sep = separator /\ key \in KnownKeys THEN key \in ValidKeys
    ELSE ValidFrom(key, 1, sep)

-----------------------------------------------------------------------------
(* Yedit: walking a document *)

\* the loop of get_entry over key_indexes[i..]
RECURSIVE GetWalk(_, _, _)
GetWalk(data, segs, i) ==
    IF i > Len(segs) THEN data
    ELSE LET seg == segs[i] IN
         IF seg.dict_key # "" /\ IsDict(data)
         THEN GetWalk(DictGet(data, seg.dict_key), segs, i + 1)
         ELSE IF seg.arr_ind # <<>> /\ IsList(data)
                 /\ IntOf(seg.arr_ind) <= PyLen(data) - 1
         THEN LET pos == ListPos(data, IntOf(seg.arr_ind)) IN
              IF pos = 0 THEN Raised("IndexError")
              ELSE GetWalk(data[2][pos], segs, i + 1)
         ELSE PyNone

\* Yedit.get_entry(data, key, sep)
get_entry(data, key, sep) ==
    IF key # <<>> /\ ~valid_key(key, sep) /\ (IsList(data) \/ IsDict(data))
    THEN PyNone
    ELSE GetWalk(data, parse_key(key, sep), 1)

\* The loop and the last step of add_entry from segment i on, on `data`:
\* res is what add_entry returns, data is `data` after the in-place writes.
RECURSIVE AddWalk(_, _, _, _)
AddWalk(data, segs, i, item) ==
    LET seg == segs[i] IN
    IF i = Len(segs)
    THEN \* process last index for add
         IF seg.arr_ind # <<>> /\ IsList(data)
            /\ IntOf(seg.arr_ind) <= PyLen(data) - 1
         THEN LET pos == ListPos(data, IntOf(seg.arr_ind)) IN
              IF pos = 0 THEN [res |-> Raised("IndexError"), data |-> data]
              ELSE [res |-> ListSet(data, pos, item),
                    data |-> ListSet(data, pos, item)]
         ELSE IF seg.dict_key # "" /\ IsDict(data)
         THEN [res |-> DictSet(data, seg.dict_key, item),
               data |-> DictSet(data, seg.dict_key, item)]
         ELSE [res |-> data, data |-> data]
    ELSE IF seg.dict_key # ""
    THEN IF IsDict(data) /\ HasKey(data, seg.dict_key)
            /\ Truthy(data[2][seg.dict_key])
         THEN LET r == AddWalk(data[2][seg.dict_key], segs, i + 1, item) IN
              [res |-> r.res, data |-> DictSet(data, seg.dict_key, r.data)]
         ELSE IF Truthy(data) /\ ~IsDict(data)
         THEN [res |-> PyNone, data |-> data]
         ELSE IF ~IsDict(data)
         THEN \* data[dict_key] = {} on a falsy non-dict
              [res |-> Raised("TypeError"), data |-> data]
         ELSE LET r == AddWalk(EmptyDict, segs, i + 1, item) IN
              [res |-> r.res, data |-> DictSet(data, seg.dict_key, r.data)]
    ELSE IF seg.arr_ind # <<>> /\ IsList(data)
            /\ IntOf(seg.arr_ind) <= PyLen(data) - 1
    THEN LET pos == ListPos(data, IntOf(seg.arr_ind)) IN
         IF pos = 0 THEN [res |-> Raised("IndexError"), data |-> data]
         ELSE LET r == AddWalk(data[2][pos], segs, i + 1, item) IN
              [res |-> r.res, data |-> ListSet(data, pos, r.data)]
    ELSE [res |-> PyNone, data |-> data]

\* Yedit.add_entry(data, key, item, sep)
add_entry(data, key, item, sep) ==
    IF key = <<>> THEN [res |-> item, data |-> data]
    ELSE IF ~valid_key(key, sep) /\ (IsList(data) \/ IsDict(data))
    THEN [res |-> PyNone, data |-> data]
    ELSE LET segs == parse_key(key, sep) IN
         IF segs = <<>> THEN [res |-> Raised("IndexError"), data |-> data]
         ELSE AddWalk(data, segs, 1, item)

\* The loop and the last step of remove_entry from segment i on:
\* res is TRUE when remove_entry returns True, FALSE when it returns None.
RECURSIVE RemoveWalk(_, _, _)
RemoveWalk(data, segs, i) ==
    LET seg == segs[i] IN
    IF i = Len(segs)
    THEN IF seg.arr_ind # <<>>
         THEN IF IsList(data) /\ IntOf(seg.arr_ind) <= PyLen(data) - 1
              THEN LET pos == ListPos(data, IntOf(seg.arr_ind)) IN
                   IF pos = 0
                   THEN [res |-> FALSE, raised |-> "IndexError", data |-> data]
                   ELSE [res |-> TRUE, raised |-> "", data |-> ListDel(data, pos)]
              ELSE [res |-> FALSE, raised |-> "", data |-> data]
         ELSE IF seg.dict_key # "" /\ IsDict(data)
         THEN IF HasKey(data, seg.dict_key)
              THEN [res |-> TRUE, raised |-> "",
                    data |-> DictDel(data, seg.dict_key)]
              ELSE [res |-> FALSE, raised |-> "KeyError", data |-> data]
         ELSE [res |-> FALSE, raised |-> "", data |-> data]
    ELSE IF seg.dict_key # "" /\ IsDict(data)
    THEN IF HasKey(data, seg.dict_key)
         THEN LET r == RemoveWalk(data[2][seg.dict_key], segs, i + 1) IN
              [res |-> r.res, raised |-> r.raised,
               data |-> DictSet(data, seg.dict_key, r.data)]
         ELSE LET r == RemoveWalk(PyNone, segs, i + 1) IN
              [res |-> r.res, raised |-> r.raised, data |-> data]
    ELSE IF seg.arr_ind # <<>> /\ IsList(data)
            /\ IntOf(seg.arr_ind) <= PyLen(data) - 1
    THEN LET pos == ListPos(data, IntOf(seg.arr_ind)) IN
         IF pos = 0 THEN [res |-> FALSE, raised |-> "IndexError", data |-> data]
         ELSE LET r == RemoveWalk(data[2][pos], segs, i + 1) IN
              [res |-> r.res, raised |-> r.raised,
               data |-> ListSet(data, pos, r.data)]
    ELSE [res |-> FALSE, raised |-> "", data |-> data]

\* Yedit.remove_entry(data, key, sep)
remove_entry(data, key, sep) ==
    IF key = <<>> /\ IsDict(data)
    THEN [res |-> TRUE, raised |-> "", data |-> EmptyDict]
    ELSE IF key = <<>> /\ IsList(data)
    THEN [res |-> TRUE, raised |-> "", data |-> EmptyList]
    ELSE IF ~(key # <<>> /\ valid_key(key, sep)) /\ (IsList(data) \/ IsDict(data))
    THEN [res |-> FALSE, raised |-> "", data |-> data]
    ELSE LET segs == parse_key(key, sep) IN
         IF segs = <<>>
         THEN [res |-> FALSE, raised |-> "IndexError", data |-> data]
         ELSE RemoveWalk(data, segs, 1)

-----------------------------------------------------------------------------
(* Yedit: the public methods, as functions of the document *)

\* Yedit.get(key): the entry, None, or the exception get_entry lets through
\* (only KeyError is caught)
YeditGet(doc, key) == get_entry(doc, key, separator)

\* Yedit.put(path, value): (changed, yaml_dict), or the exception raised
YeditPut(doc, path, value) ==
    LET entry == get_entry(doc, path, separator)
        r == add_entry(doc, path, value, separator)
    IN  IF IsRaised(entry)
        THEN [changed |-> FALSE, raised |-> TRUE, doc |-> doc]
        ELSE IF entry = value
        THEN [changed |-> FALSE, raised |-> FALSE, doc |-> doc]
        ELSE IF IsRaised(r.res)
        THEN [changed |-> FALSE, raised |-> TRUE, doc |-> doc]
        ELSE IF ~Truthy(r.res)
        THEN [changed |-> FALSE, raised |-> FALSE, doc |-> doc]
        ELSE [changed |-> TRUE, raised |-> FALSE, doc |-> r.data]

\* Yedit.delete as if it removed from a copy and never kept the copy
YeditDeleteDiscard(doc, path) ==
    LET entry == get_entry(doc, path, separator)
        r == remove_entry(doc, path, separator)
    IN  [changed |-> ~IsRaised(entry) /\ entry # PyNone /\ r.raised = "" /\ r.res,
         raised |-> IsRaised(entry) \/ (entry # PyNone /\ r.raised # ""),
         entry |-> entry, doc |-> doc]

\* Yedit.delete(path): (changed, yaml_dict), or the exception raised;
\* entry is what delete looked up before removing
YeditDelete(doc, path) ==
    LET entry == get_entry(doc, path, separator)
        r == remove_entry(doc, path, separator)
    IN  IF IsRaised(entry)
        THEN [changed |-> FALSE, raised |-> TRUE, entry |-> entry, doc |-> doc]
        ELSE IF entry = PyNone
        THEN [changed |-> FALSE, raised |-> FALSE, entry |-> entry, doc |-> doc]
        ELSE IF r.raised # ""
        THEN [changed |-> FALSE, raised |-> TRUE, entry |-> entry, doc |-> doc]
        ELSE IF ~r.res
        THEN [changed |-> FALSE, raised |-> FALSE, entry |-> entry, doc |-> doc]
        ELSE [changed |-> TRUE, raised |-> FALSE, entry |-> entry, doc |-> r.data]

\* An in-place write through the reference get_entry returned for `segs`:
\* the document with the object at that path replaced by `new`.
RECURSIVE SetWalk(_, _, _, _)
SetWalk(data, segs, i, new) ==
    IF i > Len(segs) THEN new
    ELSE LET seg == segs[i] IN
         IF seg.dict_key # "" /\ IsDict(data)
         THEN DictSet(data, seg.dict_key,
                      SetWalk(data[2][seg.dict_key], segs, i + 1, new))
         ELSE LET pos == ListPos(data, IntOf(seg.arr_ind)) IN
              ListSet(data, pos, SetWalk(data[2][pos], segs, i + 1, new))

SetAt(doc, key, new) == SetWalk(doc, parse_key(key, separator), 1, new)

\* list.index(x): the 1-based position of the first element equal to x, 0
\* when list.index raises ValueError
ListIndex(l, x) ==
    IF \E i \in 1..PyLen(l) : l[2][i] = x
    THEN CHOOSE i \in 1..PyLen(l) :
             l[2][i] = x /\ \A j \in 1..(i - 1) : l[2][j] # x
    ELSE 0

\* dict.update(other)
DictUpdate(d, other) ==
    PyDict([x \in (DOMAIN d[2]) \cup (DOMAIN other[2]) |->
               IF x \in DOMAIN other[2] THEN other[2][x] ELSE d[2][x]])

\* Yedit.append(path, value)
YeditAppend(doc, path, value) ==
    LET entry0 == get_entry(doc, path, separator)
        p == YeditPut(doc, path, EmptyList)
        doc1 == IF entry0 = PyNone THEN p.doc ELSE doc
        entry == IF entry0 = PyNone THEN get_entry(doc1, path, separator)
                 ELSE entry0
    IN  IF IsRaised(entry0) \/ (entry0 = PyNone /\ p.raised) \/ IsRaised(entry)
        THEN [changed |-> FALSE, raised |-> TRUE, doc |-> doc]
        ELSE IF ~IsList(entry)
        THEN [changed |-> FALSE, raised |-> FALSE, doc |-> doc1]
        ELSE [changed |-> TRUE, raised |-> FALSE,
              doc |-> SetAt(doc1, path, PyList(Append(entry[2], value)))]

\* Yedit.update as if a merge into a dict reported changed only when the
\* dict is another one afterwards
YeditUpdateQuietMerge(doc, path, value, index, curr_value) ==
    LET entry == get_entry(doc, path, separator) IN
    IF IsDict(entry) /\ IsDict(value)
    THEN [changed |-> DictUpdate(entry, value) # entry, raised |-> FALSE,
          doc |-> SetAt(doc, path, DictUpdate(entry, value))]
    ELSE [changed |-> FALSE, raised |-> IsRaised(entry) \/ IsDict(entry),
          doc |-> doc]

\* Yedit.update as if it appended the value without looking for it first
YeditUpdateAppend(doc, path, value, index, curr_value) ==
    LET entry == get_entry(doc, path, separator) IN
    IF IsList(entry)
    THEN [changed |-> TRUE, raised |-> FALSE,
          doc |-> SetAt(doc, path, PyList(Append(entry[2], value)))]
    ELSE [changed |-> FALSE, raised |-> IsRaised(entry), doc |-> doc]

\* Yedit.update(path, value, index, curr_value); index and curr_value are
\* None when not given
YeditUpdate(doc, path, value, index, curr_value) ==
    LET entry == get_entry(doc, path, separator)
        No == [changed |-> FALSE, raised |-> FALSE, doc |-> doc]
        Exc == [changed |-> FALSE, raised |-> TRUE, doc |-> doc]
        Yes(new) == [changed |-> TRUE, raised |-> FALSE,
                     doc |-> SetAt(doc, path, new)]
    IN  IF IsRaised(entry) THEN Exc
        ELSE IF IsDict(entry)
        THEN IF ~IsDict(value) THEN Exc   \* YeditException
             ELSE Yes(DictUpdate(entry, value))
        ELSE IF IsList(entry)
        THEN LET cur == IF Truthy(curr_value) THEN ListIndex(entry, curr_value)
                        ELSE 0
                 \* ind as a 1-based position; -1 is None, 0 is IndexError
                 ind == IF Truthy(curr_value) THEN cur
                        ELSE IF index # PyNone THEN ListPos(entry, index[2])
                        ELSE 0 - 1
                 found == ListIndex(entry, value)
             IN  IF Truthy(curr_value) /\ cur = 0 THEN No
                 ELSE IF ind = 0 THEN Exc
                 ELSE IF ind > 0 /\ entry[2][ind] # value
                 THEN Yes(ListSet(entry, ind, value))
                 ELSE IF found = 0
                 THEN Yes(PyList(Append(entry[2], value)))
                 ELSE No
        ELSE No

-----------------------------------------------------------------------------
(* Utils.check_def_equal *)

\* the keys check_def_equal never compares
DefaultSkip == {"metadata", "status"}

\* check_def_equal as if two lists of the same length were taken for equal
\* without looking at their elements
RECURSIVE check_def_equalShallowLists(_, _, _)
check_def_equalShallowLists(user_def, result_def, skip_keys) ==
    LET skip == DefaultSkip \cup skip_keys IN
    \A key \in (DOMAIN result_def[2]) \ skip :
        LET value == result_def[2][key] IN
        IF IsList(value)
        THEN /\ HasKey(user_def, key)
             /\ IsList(user_def[2][key])
             /\ PyLen(user_def[2][key]) = PyLen(value)
        ELSE IF IsDict(value)
        THEN /\ HasKey(user_def, key)
             /\ IsDict(user_def[2][key])
             /\ (DOMAIN value[2]) \ skip = (DOMAIN user_def[2][key][2]) \ skip
             /\ check_def_equalShallowLists(user_def[2][key], value, skip_keys)
        ELSE HasKey(user_def, key) /\ value = user_def[2][key]

\* check_def_equal as if an element that is no mapping were compared with
\* the whole list on the other side (values[0] != value)
RECURSIVE check_def_equalElementToList(_, _, _)
check_def_equalElementToList(user_def, result_def, skip_keys) ==
    LET skip == DefaultSkip \cup skip_keys IN
    \A key \in (DOMAIN result_def[2]) \ skip :
        LET value == result_def[2][key] IN
        IF IsList(value)
        THEN /\ HasKey(user_def, key)
             /\ IsList(user_def[2][key])
             /\ PyLen(user_def[2][key]) = PyLen(value)
             /\ \A i \in 1..PyLen(value) :
                    IF IsDict(user_def[2][key][2][i]) /\ IsDict(value[2][i])
                    THEN check_def_equalElementToList(user_def[2][key][2][i],
                                                      value[2][i], skip_keys)
                    ELSE value = user_def[2][key][2][i]
        ELSE IF IsDict(value)
        THEN /\ HasKey(user_def, key)
             /\ IsDict(user_def[2][key])
             /\ (DOMAIN value[2]) \ skip = (DOMAIN user_def[2][key][2]) \ skip
             /\ check_def_equalElementToList(user_def[2][key], value, skip_keys)
        ELSE HasKey(user_def, key) /\ value = user_def[2][key]

\* check_def_equal as if the key sets of two mappings were not compared
\* before the recursion
RECURSIVE check_def_equalNoKeySets(_, _, _)
check_def_equalNoKeySets(user_def, result_def, skip_keys) ==
    LET skip == DefaultSkip \cup skip_keys IN
    \A key \in (DOMAIN result_def[2]) \ skip :
        LET value == result_def[2][key] IN
        IF IsList(value)
        THEN /\ HasKey(user_def, key)
             /\ IsList(user_def[2][key])
             /\ PyLen(user_def[2][key]) = PyLen(value)
             /\ \A i \in 1..PyLen(value) :
                    IF IsDict(user_def[2][key][2][i]) /\ IsDict(value[2][i])
                    THEN check_def_equalNoKeySets(user_def[2][key][2][i],
                                                  value[2][i], skip_keys)
                    ELSE value = user_def[2][key]
        ELSE IF IsDict(value)
        THEN /\ HasKey(user_def, key)
             /\ IsDict(user_def[2][key])
             /\ check_def_equalNoKeySets(user_def[2][key], value, skip_keys)
        ELSE HasKey(user_def, key) /\ value = user_def[2][key]

\* check_def_equal as if the keys of user_def were walked as well: a key
\* that only user_def has makes the answer false
RECURSIVE check_def_equalBothSides(_, _, _)
check_def_equalBothSides(user_def, result_def, skip_keys) ==
    LET skip == DefaultSkip \cup skip_keys IN
    /\ (DOMAIN user_def[2]) \ skip \subseteq DOMAIN result_def[2]
    /\ \A key \in (DOMAIN result_def[2]) \ skip :
        LET value == result_def[2][key] IN
        IF IsList(value)
        THEN /\ HasKey(user_def, key)
             /\ IsList(user_def[2][key])
             /\ PyLen(user_def[2][key]) = PyLen(value)
             /\ \A i \in 1..PyLen(value) :
                    IF IsDict(user_def[2][key][2][i]) /\ IsDict(value[2][i])
                    THEN check_def_equalBothSides(user_def[2][key][2][i],
                                                  value[2][i], skip_keys)
                    ELSE value = user_def[2][key]
        ELSE IF IsDict(value)
        THEN /\ HasKey(user_def, key)
             /\ IsDict(user_def[2][key])
             /\ (DOMAIN value[2]) \ skip = (DOMAIN user_def[2][key][2]) \ skip
             /\ check_def_equalBothSides(user_def[2][key], value, skip_keys)
        ELSE HasKey(user_def, key) /\ value = user_def[2][key]

RECURSIVE check_def_equal(_, _, _)
check_def_equal(user_def, result_def, skip_keys) ==
    LET skip == DefaultSkip \cup skip_keys IN
    \A key \in (DOMAIN result_def[2]) \ skip :
        LET value == result_def[2][key] IN
        IF IsList(value)
        THEN /\ HasKey(user_def, key)
             /\ IsList(user_def[2][key])
             /\ PyLen(user_def[2][key]) = PyLen(value)
             /\ \A i \in 1..PyLen(value) :
                    IF IsDict(user_def[2][key][2][i]) /\ IsDict(value[2][i])
                    THEN check_def_equal(user_def[2][key][2][i], value[2][i],
                                         skip_keys)
                    ELSE value = user_def[2][key]
        ELSE IF IsDict(value)
        THEN /\ HasKey(user_def, key)
             /\ IsDict(user_def[2][key])
             /\ (DOMAIN value[2]) \ skip = (DOMAIN user_def[2][key][2]) \ skip
             /\ check_def_equal(user_def[2][key], value, skip_keys)
        ELSE HasKey(user_def, key) /\ value = user_def[2][key]

-----------------------------------------------------------------------------
(* Yedit: the editor as a state machine over one document *)

\* number of Yedit calls explored on one document
MaxOps == 2

\* a dict literal of one and of two keys
D1(k, v) == PyDict([x \in {k} |-> v])
D2(k1, v1, k2, v2) == PyDict([x \in {k1, k2} |-> IF x = k1 THEN v1 ELSE v2])

\* the documents the editor starts from
YDocs ==
    { EmptyDict,
      D1("a", PyInt(1)),
      D1("a", PyInt(0)),
      D1("a", D1("b", PyInt(1))),
      D1("a", PyList(<<PyInt(1), PyInt(2)>>)),
      D1("a", PyList(<<D1("b", PyInt(1))>>)),
      D2("a", PyList(<<PyInt(1)>>), "c", PyNone),
      D1("a", EmptyList) }

\* the values written
YValues == { PyInt(1), D1("b", PyInt(7)) }

\* the paths update is called on, and its (index, curr_value) arguments
YUpdatePaths == { <<"a">>, <<"a", "[", "0", "]">> }
YUpdateArgs ==
    { <<PyNone, PyNone>>, <<PyInt(0), PyNone>>, <<PyInt(1), PyNone>>,
      <<PyNone, PyInt(1)>> }

\* the paths append is called on
YAppendPaths ==
    { <<"a">>, <<"a", ".", "b">>, <<"c", ".", "d">>, <<"a", "[", "0", "]">> }

\* a call record: before is the document the call was made on
NoCall ==
    [op |-> "none", path |-> <<>>, value |-> PyNone, index |-> PyNone,
     curr_value |-> PyNone, changed |-> FALSE, raised |-> FALSE,
     ret |-> PyNone, before |-> EmptyDict]

YInit ==
    /\ yaml_dict \in YDocs
    /\ ylast = NoCall
    /\ yprev = NoCall
    /\ ynops = 0

\* a caller runs yed.get(path)
YGet(path) ==
    /\ ynops < MaxOps
    /\ LET e == YeditGet(yaml_dict, path) IN
       ylast' = [op |-> "get", path |-> path, value |-> PyNone,
                 index |-> PyNone, curr_value |-> PyNone,
                 changed |-> FALSE, raised |-> IsRaised(e), ret |-> e,
                 before |-> yaml_dict]
    /\ yprev' = ylast
    /\ ynops' = ynops + 1
    /\ UNCHANGED yaml_dict
    /\ UNCHANGED <<rvars, cvars, wvars>>

\* a caller runs yed.put(path, value)
YPut(path, value) ==
    /\ ynops < MaxOps
    /\ LET r == YeditPut(yaml_dict, path, value) IN
       /\ yaml_dict' = r.doc
       /\ ylast' = [op |-> "put", path |-> path, value |-> value,
                    index |-> PyNone, curr_value |-> PyNone,
                    changed |-> r.changed, raised |-> r.raised, ret |-> PyNone,
                    before |-> yaml_dict]
    /\ yprev' = ylast
    /\ ynops' = ynops + 1
    /\ UNCHANGED <<rvars, cvars, wvars>>

\* a caller runs yed.delete(path)
YDelete(path) ==
    /\ ynops < MaxOps
    /\ LET r == YeditDelete(yaml_dict, path) IN
       /\ yaml_dict' = r.doc
       /\ ylast' = [op |-> "delete", path |-> path, value |-> PyNone,
                    index |-> PyNone, curr_value |-> PyNone,
                    changed |-> r.changed, raised |-> r.raised, ret |-> r.entry,
                    before |-> yaml_dict]
    /\ yprev' = ylast
    /\ ynops' = ynops + 1
    /\ UNCHANGED <<rvars, cvars, wvars>>

\* a caller runs yed.update(path, value, index, curr_value)
YUpdate(path, value, index, curr_value) ==
    /\ ynops < MaxOps
    /\ LET r == YeditUpdate(yaml_dict, path, value, index, curr_value) IN
       /\ yaml_dict' = r.doc
       /\ ylast' = [op |-> "update", path |-> path, value |-> value,
                    index |-> index, curr_value |-> curr_value,
                    changed |-> r.changed, raised |-> r.raised, ret |-> PyNone,
                    before |-> yaml_dict]
    /\ yprev' = ylast
    /\ ynops' = ynops + 1
    /\ UNCHANGED <<rvars, cvars, wvars>>

\* a caller runs yed.append(path, value)
YAppend(path, value) ==
    /\ ynops < MaxOps
    /\ LET r == YeditAppend(yaml_dict, path, value) IN
       /\ yaml_dict' = r.doc
       /\ ylast' = [op |-> "append", path |-> path, value |-> value,
                    index |-> PyNone, curr_value |-> PyNone,
                    changed |-> r.changed, raised |-> r.raised, ret |-> PyNone,
                    before |-> yaml_dict]
    /\ yprev' = ylast
    /\ ynops' = ynops + 1
    /\ UNCHANGED <<rvars, cvars, wvars>>

YNext ==
    \/ \E p \in YPaths : YGet(p)
    \/ \E p \in YPaths, v \in YValues : YPut(p, v)
    \/ \E p \in YPaths : YDelete(p)
    \/ \E p \in YUpdatePaths, v \in YValues, a \in YUpdateArgs :
           YUpdate(p, v, a[1], a[2])
    \/ \E p \in YAppendPaths, v \in YValues : YAppend(p, v)

-----------------------------------------------------------------------------
(* Router: the documents of one pass *)

\* "spec.template.spec.containers[0].env[%s].value" % idx
env_value_path(idx) ==
    env_path \o <<"[", DigitSeq[idx + 1], "]", ".", "v", "a", "l", "u", "e">>

\* router_parts as if the cluster role binding were not one of the parts
router_partsNoRoleBinding == <<"dc", "svc", "sa", "secret">>

\* Router.router_parts: the kinds get() and delete() walk, in order
router_parts == <<"dc", "svc", "sa", "secret", "clusterrolebinding">>
PartKinds == {"dc", "svc", "sa", "secret", "clusterrolebinding"}

\* the keys of prepare_router's oc_objects, in the order the creates are
\* issued (create()'s result does not depend on that order)
oc_types ==
    <<"DeploymentConfig", "Secret", "ServiceAccount", "ClusterRoleBinding",
      "Service">>
OcTypes ==
    {"DeploymentConfig", "Secret", "ServiceAccount", "ClusterRoleBinding",
     "Service"}

\* one environment variable / one port of a container
EnvVar(n, v) == PyDict([name |-> PyStr(n), value |-> PyStr(v)])

\* The DeploymentConfig `oadm router --dry-run -o json` renders: no protocol
\* on the container ports, STATS_PASSWORD generated unless it was configured.
RenderedDC(stats_password) ==
    PyDict([
      kind |-> PyStr("DeploymentConfig"),
      metadata |-> PyDict([name |-> PyStr("router")]),
      spec |-> PyDict([
        replicas |-> PyInt(1),
        template |-> PyDict([
          spec |-> PyDict([
            containers |-> PyList(<<
              PyDict([
                name |-> PyStr("router"),
                env |-> PyList(<<
                  EnvVar("STATS_PORT", "1936"),
                  EnvVar("STATS_PASSWORD",
                         IF stats_password = PyNone THEN "generated-now"
                         ELSE stats_password[2]) >>),
                ports |-> PyList(<< PyDict([containerPort |-> PyInt(80)]) >>)
              ]) >>)
          ])
        ])
      ])
    ])

RenderedService ==
    PyDict([
      kind |-> PyStr("Service"),
      metadata |-> PyDict([name |-> PyStr("router")]),
      spec |-> PyDict([
        ports |-> PyList(<< PyDict([name |-> PyStr("80-tcp"),
                                    port |-> PyInt(80)]) >>),
        selector |-> PyDict([router |-> PyStr("router")])
      ])
    ])

RenderedServiceAccount ==
    PyDict([
      kind |-> PyStr("ServiceAccount"),
      metadata |-> PyDict([name |-> PyStr("router")])
    ])

RenderedSecret ==
    PyDict([
      kind |-> PyStr("Secret"),
      metadata |-> PyDict([name |-> PyStr("router-certs")]),
      data |-> PyDict([cert |-> PyStr("pem-now")])
    ])

RenderedRoleBinding ==
    PyDict([
      kind |-> PyStr("ClusterRoleBinding"),
      metadata |-> PyDict([name |-> PyStr("router-router-role")]),
      roleRef |-> PyDict([name |-> PyStr("system:router")])
    ])

\* The objects as the cluster serves them: server-populated metadata and
\* status, defaulted fields (protocol, dnsPolicy, clusterIP, ...), and the
\* password generated when the router was first created.
LiveDC(replicas) ==
    PyDict([
      kind |-> PyStr("DeploymentConfig"),
      metadata |-> PyDict([name |-> PyStr("router"), uid |-> PyStr("u1")]),
      status |-> PyDict([availableReplicas |-> PyInt(replicas)]),
      spec |-> PyDict([
        replicas |-> PyInt(replicas),
        template |-> PyDict([
          spec |-> PyDict([
            dnsPolicy |-> PyStr("ClusterFirst"),
            containers |-> PyList(<<
              PyDict([
                name |-> PyStr("router"),
                env |-> PyList(<<
                  EnvVar("STATS_PORT", "1936"),
                  EnvVar("STATS_PASSWORD", "generated-before") >>),
                ports |-> PyList(<< PyDict([containerPort |-> PyInt(80),
                                            protocol |-> PyStr("TCP")]) >>),
                terminationMessagePath |-> PyStr("/dev/termination-log")
              ]) >>)
          ])
        ])
      ])
    ])

LiveService(selector) ==
    PyDict([
      kind |-> PyStr("Service"),
      metadata |-> PyDict([name |-> PyStr("router"), uid |-> PyStr("u2")]),
      status |-> PyDict([loadBalancer |-> EmptyDict]),
      spec |-> PyDict([
        clusterIP |-> PyStr("172.30.0.9"),
        sessionAffinity |-> PyStr("None"),
        type |-> PyStr("ClusterIP"),
        ports |-> PyList(<< PyDict([name |-> PyStr("80-tcp"),
                                    port |-> PyInt(80),
                                    protocol |-> PyStr("TCP")]) >>),
        selector |-> PyDict([router |-> PyStr(selector)])
      ])
    ])

LiveServiceAccount(labelled) ==
    IF labelled
    THEN PyDict([
           kind |-> PyStr("ServiceAccount"),
           metadata |-> PyDict([name |-> PyStr("router"), uid |-> PyStr("u3")]),
           secrets |-> PyList(<< PyDict([name |-> PyStr("router-token-1")]) >>),
           imagePullSecrets |->
               PyList(<< PyDict([name |-> PyStr("router-dockercfg-1")]) >>),
           automountServiceAccountToken |-> PyInt(0)
         ])
    ELSE PyDict([
           kind |-> PyStr("ServiceAccount"),
           metadata |-> PyDict([name |-> PyStr("router"), uid |-> PyStr("u3")]),
           secrets |-> PyList(<< PyDict([name |-> PyStr("router-token-1")]) >>),
           imagePullSecrets |->
               PyList(<< PyDict([name |-> PyStr("router-dockercfg-1")]) >>)
         ])

LiveSecret(pem) ==
    PyDict([
      kind |-> PyStr("Secret"),
      metadata |-> PyDict([name |-> PyStr("router-certs"), uid |-> PyStr("u4")]),
      data |-> PyDict([cert |-> PyStr(pem)])
    ])

LiveRoleBinding ==
    PyDict([
      kind |-> PyStr("ClusterRoleBinding"),
      metadata |-> PyDict([name |-> PyStr("router-router-role"),
                           uid |-> PyStr("u5")]),
      roleRef |-> PyDict([name |-> PyStr("system:router")])
    ])

\* How the four compared parts can look when all of them are live: as the
\* render describes them, or with one part changed by somebody.
Variants == {"same", "dc", "svc", "sa", "secret"}

LiveObject(kind, variant) ==
    CASE kind = "dc" -> LiveDC(IF variant = "dc" THEN 2 ELSE 1)
      [] kind = "svc" -> LiveService(IF variant = "svc" THEN "other" ELSE "router")
      [] kind = "sa" -> LiveServiceAccount(variant = "sa")
      [] kind = "secret" ->
             LiveSecret(IF variant = "secret" THEN "pem-before" ELSE "pem-now")
      [] OTHER -> LiveRoleBinding

-----------------------------------------------------------------------------
(* Router: rendering and comparing *)

\* one declared edit of params['edits']
Edit(action, key, value) ==
    [action |-> action, key |-> key, value |-> value,
     index |-> PyNone, curr_value |-> PyNone]

\* one turn of the loop of add_modifications: the Yedit call of one edit
RunEdit(doc, edit) ==
    CASE edit.action = "put" -> YeditPut(doc, edit.key, edit.value)
      [] edit.action = "update" ->
             YeditUpdate(doc, edit.key, edit.value, edit.index, edit.curr_value)
      [] edit.action = "append" -> YeditAppend(doc, edit.key, edit.value)

\* The loop of add_modifications from edit i on: the document after the
\* edits, whether any of them reported a change, whether one raised.
RECURSIVE ApplyEdits(_, _, _, _)

\* the loop after edit i answered r: results.append(is_changed), next edit
EditsAfter(r, doc, edits, i, any) ==
    IF r.raised THEN [doc |-> doc, any |-> any, raised |-> TRUE]
    ELSE ApplyEdits(r.doc, edits, i + 1, any \/ r.changed)

ApplyEdits(doc, edits, i, any) ==
    IF i > Len(edits) THEN [doc |-> doc, any |-> any, raised |-> FALSE]
    ELSE EditsAfter(RunEdit(doc, edits[i]), doc, edits, i, any)

\* add_modifications as if it returned the deployment whatever the edits did
ModificationsResultKeep(r, edits) ==
    IF r.raised THEN Raised("YeditException") ELSE r.doc

\* the end of add_modifications for the loop's result r:
\* if edit_results and not any(...): return None
ModificationsResult(r, edits) ==
    IF r.raised THEN Raised("YeditException")
    ELSE IF Len(edits) > 0 /\ ~r.any THEN PyNone
    ELSE r.doc

\* Router.add_modifications(deploymentconfig): the edited document, None
\* when edits were given and none reported a change
add_modifications(deploymentconfig, edits) ==
    ModificationsResult(ApplyEdits(deploymentconfig, edits, 1, FALSE), edits)

\* the items of the dry-run render for these parameters
RenderItem(oc_type, stats_password) ==
    CASE oc_type = "DeploymentConfig" -> RenderedDC(stats_password)
      [] oc_type = "Service" -> RenderedService
      [] oc_type = "ServiceAccount" -> RenderedServiceAccount
      [] oc_type = "Secret" -> RenderedSecret
      [] OTHER -> RenderedRoleBinding

\* Router.prepare_router(): oc_objects (kind -> document, None when the
\* render held no such kind), or the exception that leaves it.  `rendered`
\* is the set of kinds the dry-run returned; it always holds the deployment.
RenderedObjects(prm, rendered) ==
    [t \in OcTypes |->
        IF t \in rendered THEN RenderItem(t, prm.stats_password) ELSE PyNone]

\* the end of prepare_router: oc_objects once add_modifications answered dc
PreparedObjects(obj0, dc) ==
    IF IsRaised(dc) THEN [exc |-> dc[2], obj |-> obj0]
    \* oc_objects[oc_type]['obj'].yaml_dict on None
    ELSE IF dc = PyNone \/ \E t \in OcTypes : obj0[t] = PyNone
    THEN [exc |-> "AttributeError",
          obj |-> [obj0 EXCEPT !["DeploymentConfig"] = dc]]
    ELSE [exc |-> "", obj |-> [obj0 EXCEPT !["DeploymentConfig"] = dc]]

PrepareWith(obj0, edits) ==
    PreparedObjects(obj0, add_modifications(obj0["DeploymentConfig"], edits))

prepare_router(prm, rendered) ==
    PrepareWith(RenderedObjects(prm, rendered), prm.edits)

\* port['protocol'] = 'TCP' for every port of the rendered service
ForceProtocol(ports) ==
    PyList([i \in 1..PyLen(ports) |-> DictSet(ports[2][i], "protocol", PyStr("TCP"))])

\* port['protocol'] = 'TCP' where the rendered container port has none
DefaultProtocol(ports) ==
    PyList([i \in 1..PyLen(ports) |->
               IF HasKey(ports[2][i], "protocol") THEN ports[2][i]
               ELSE DictSet(ports[2][i], "protocol", PyStr("TCP"))])

\* the skip lists of needs_update
ServiceAccountSkip == {"secrets", "imagePullSecrets"}
\* the service skip list as if it also named the selector
ServiceSkipSelector ==
    {"portalIP", "clusterIP", "sessionAffinity", "type", "selector"}
ServiceSkip == {"portalIP", "clusterIP", "sessionAffinity", "type"}
DeploymentSkip ==
    {"dnsPolicy", "terminationGracePeriodSeconds", "restartPolicy",
     "timeoutSeconds", "livenessProbe", "readinessProbe",
     "terminationMessagePath", "hostPort", "defaultMode"}

\* the rendered service as needs_update compares it
PreparedService(svc) ==
    SetAt(svc, port_path, ForceProtocol(YeditGet(svc, port_path)))

\* position (0-based) of the first STATS_PASSWORD entry of env, -1 if none
StatsPasswordIdx(env) ==
    IF \E i \in 1..PyLen(env) : env[2][i][2]["name"] = PyStr("STATS_PASSWORD")
    THEN (CHOOSE i \in 1..PyLen(env) :
              /\ env[2][i][2]["name"] = PyStr("STATS_PASSWORD")
              /\ \A j \in 1..(i - 1) :
                     env[2][j][2]["name"] # PyStr("STATS_PASSWORD")) - 1
    ELSE 0 - 1

\* the rendered deployment as needs_update compares it: the live
\* STATS_PASSWORD copied in (unless one is configured), protocol defaulted
\* ... .get(env_path) or []
EnvOf(env0) == IF Truthy(env0) THEN env0 ELSE EmptyList

\* if not self.config.config_options['stats_password']['value']: copy the
\* live value over the rendered one, at the index found in the render
CopyStatsPassword(dc, livedc, stats_password, idx) ==
    IF ~Truthy(stats_password) /\ idx >= 0
    THEN SetAt(dc, env_value_path(idx), YeditGet(livedc, env_value_path(idx)))
    ELSE dc

\* the loop over the rendered container ports
DefaultPorts(dc, ports0) ==
    IF Truthy(ports0)
    THEN SetAt(dc, container_ports_path, DefaultProtocol(ports0))
    ELSE dc

WithDefaultPorts(dc) == DefaultPorts(dc, YeditGet(dc, container_ports_path))

PreparedDC(dc, livedc, stats_password) ==
    WithDefaultPorts(
        CopyStatsPassword(dc, livedc, stats_password,
                          StatsPasswordIdx(EnvOf(YeditGet(dc, env_path)))))

\* the four comparisons of needs_update
ServiceAccountEqual(obj, lv) ==
    check_def_equal(obj["ServiceAccount"], lv["sa"], ServiceAccountSkip)
SecretEqual(obj, lv) ==
    check_def_equal(obj["Secret"], lv["secret"], ServiceAccountSkip)
ServiceEqual(obj, lv) ==
    check_def_equal(PreparedService(obj["Service"]), lv["svc"], ServiceSkip)
DeploymentEqual(obj, lv, stats_password) ==
    check_def_equal(PreparedDC(obj["DeploymentConfig"], lv["dc"], stats_password),
                    lv["dc"], DeploymentSkip)

\* Router.needs_update(): drift is its return value, exc the exception
\* that leaves it instead
\* needs_update once prepare_router answered prep
CompareParts(prep, stats_password, lv) ==
    IF prep.exc # "" THEN [exc |-> prep.exc, drift |-> FALSE]
    ELSE IF ~ServiceAccountEqual(prep.obj, lv)
    THEN [exc |-> "", drift |-> TRUE]
    ELSE IF ~SecretEqual(prep.obj, lv)
    THEN [exc |-> "", drift |-> TRUE]
    \* for port in ...get('spec.ports') on a render without ports
    ELSE IF ~IsList(YeditGet(prep.obj["Service"], port_path))
    THEN [exc |-> "TypeError", drift |-> FALSE]
    ELSE IF ~ServiceEqual(prep.obj, lv)
    THEN [exc |-> "", drift |-> TRUE]
    ELSE [exc |-> "",
          drift |-> ~DeploymentEqual(prep.obj, lv, stats_password)]

\* needs_update as if it answered True whatever the comparisons say
needs_updateAlways(prm, rendered, lv) == [exc |-> "", drift |-> TRUE]

needs_update(prm, rendered, lv) ==
    IF lv["dc"] = PyNone \/ lv["svc"] = PyNone \/ lv["sa"] = PyNone
       \/ lv["secret"] = PyNone
    THEN [exc |-> "", drift |-> TRUE]
    ELSE CompareParts(prepare_router(prm, rendered), prm.stats_password, lv)

\* exists() as if the cluster role binding counted too
existsWithRoleBinding(lv) ==
    lv["dc"] # PyNone /\ lv["svc"] # PyNone /\ lv["secret"] # PyNone
    /\ lv["sa"] # PyNone /\ lv["clusterrolebinding"] # PyNone

\* Router.exists()
exists(lv) ==
    lv["dc"] # PyNone /\ lv["svc"] # PyNone /\ lv["secret"] # PyNone
    /\ lv["sa"] # PyNone

-----------------------------------------------------------------------------
(* Router: one pass of Router.run_ansible as a state machine *)

\* the edit lists and stats_password settings a pass is run with
Configs ==
    { [edits |-> <<>>, stats_password |-> PyNone],
      [edits |-> <<Edit("put", replicas_path, PyInt(2))>>,
       stats_password |-> PyNone],
      [edits |-> <<Edit("put", replicas_path, PyInt(1))>>,
       stats_password |-> PyNone],
      [edits |-> <<Edit("put", replicas_path, PyInt(1)),
                   Edit("append", env_path, EnvVar("ROUTER_SYSLOG", "on"))>>,
       stats_password |-> PyStr("secret")] }

\* what `oc create -f` / `oc delete` can answer: returncode and stderr
Ok == [returncode |-> 0, stderr |-> ""]
AlreadyExists == [returncode |-> 1, stderr |-> "already exists"]
NotFound == [returncode |-> 1, stderr |-> "not found"]
Forbidden == [returncode |-> 1, stderr |-> "forbidden"]
CreateAnswers == {Ok, AlreadyExists, Forbidden}
DeleteAnswers == {Ok, NotFound, Forbidden}

\* 'already exist' in result['stderr'] / 'not found' in part['stderr']
SaysAlreadyExist(r) == r.stderr = "already exists"
SaysNotFound(r) == r.stderr = "not found"

Pending == [t |-> "pending", changed |-> FALSE, failed |-> FALSE, state |-> "",
            exc |-> ""]
\* return {'changed': c, 'state': state} (with 'results' when calls were made)
Returned(c, st) ==
    [t |-> "returned", changed |-> c, failed |-> FALSE, state |-> st, exc |-> ""]
\* return {'changed': c, 'msg': 'CHECK_MODE: ...'}
ReturnedCheck(c) ==
    [t |-> "returned", changed |-> c, failed |-> FALSE, state |-> "", exc |-> ""]
\* return {'failed': True, 'msg': api_rval}
ReturnedFailed ==
    [t |-> "returned", changed |-> FALSE, failed |-> TRUE, state |-> "",
     exc |-> ""]
\* an exception leaves run_ansible
Threw(e) ==
    [t |-> "raised", changed |-> FALSE, failed |-> FALSE, state |-> "", exc |-> e]

NoLive == [k \in PartKinds |-> PyNone]

\* what the dry-run can return: all five kinds, or no Secret (before 3.2)
Renders == {OcTypes, OcTypes \ {"Secret"}}

RInit ==
    /\ \E st \in {"present", "absent"}, cm \in BOOLEAN, cfg \in Configs :
           params = [state |-> st, check_mode |-> cm, edits |-> cfg.edits,
                     stats_password |-> cfg.stats_password]
    /\ \E pr \in SUBSET PartKinds, v \in Variants,
          rd \in Renders :
           /\ v # "same" => {"dc", "svc", "sa", "secret"} \subseteq pr
           /\ cluster = [present |-> pr, variant |-> v, rendered |-> rd]
    /\ live = NoLive
    /\ pc = "start"
    /\ calls = <<>>
    /\ parts = <<>>
    /\ results = <<>>
    /\ todo = <<>>
    /\ outcome = Pending

\* Router.__init__ -> Router.get(): one _get per part; a part is kept when
\* its get returned 0
Construct ==
    /\ pc = "start"
    /\ live' = [k \in PartKinds |->
                   IF k \in cluster.present THEN LiveObject(k, cluster.variant)
                   ELSE PyNone]
    /\ pc' = "decide"
    /\ UNCHANGED <<params, cluster, calls, parts, results, todo, outcome>>
    /\ UNCHANGED <<yvars, cvars, wvars>>

Finish(o) ==
    /\ pc' = "done"
    /\ outcome' = o
    /\ todo' = <<>>

\* state == 'absent' as if run_ansible never asked exists()
DecideAbsentNoExists ==
    /\ pc = "decide"
    /\ params.state = "absent"
    /\ IF params.check_mode THEN Finish(ReturnedCheck(TRUE))
       ELSE /\ pc' = "delete"
            /\ todo' = router_parts
            /\ UNCHANGED outcome
    /\ UNCHANGED <<params, cluster, live, calls, parts, results>>
    /\ UNCHANGED <<yvars, cvars, wvars>>

\* run_ansible, state == 'absent', up to the first delete call
DecideAbsent ==
    /\ pc = "decide"
    /\ params.state = "absent"
    /\ IF ~exists(live) THEN Finish(Returned(FALSE, "absent"))
       ELSE IF params.check_mode THEN Finish(ReturnedCheck(TRUE))
       ELSE /\ pc' = "delete"
            /\ todo' = router_parts
            /\ UNCHANGED outcome
    /\ UNCHANGED <<params, cluster, live, calls, parts, results>>
    /\ UNCHANGED <<yvars, cvars, wvars>>

\* run_ansible after needs_update as if check_mode were not looked at
\* before the update
AfterNeedsUpdateNoCheck(nu) ==
    IF nu.exc # "" THEN Finish(Threw(nu.exc))
    ELSE IF ~nu.drift THEN Finish(Returned(FALSE, "present"))
    ELSE /\ pc' = "delete"
         /\ todo' = router_parts
         /\ UNCHANGED outcome

\* run_ansible after needs_update answered nu
AfterNeedsUpdate(nu) ==
    IF nu.exc # "" THEN Finish(Threw(nu.exc))
    ELSE IF ~nu.drift THEN Finish(Returned(FALSE, "present"))
    ELSE IF params.check_mode THEN Finish(ReturnedCheck(FALSE))
    ELSE /\ pc' = "delete"
         /\ todo' = router_parts
         /\ UNCHANGED outcome

\* run_ansible, state == 'present', up to the first create or delete call
DecidePresent ==
    /\ pc = "decide"
    /\ params.state = "present"
    /\ IF ~exists(live)
       THEN IF params.check_mode THEN Finish(ReturnedCheck(TRUE))
            ELSE /\ pc' = "prepare"
                 /\ UNCHANGED <<todo, outcome>>
       ELSE AfterNeedsUpdate(needs_update(params, cluster.rendered, live))
    /\ UNCHANGED <<params, cluster, live, calls, parts, results>>
    /\ UNCHANGED <<yvars, cvars, wvars>>

\* Router.delete(): the next self._delete(kind, name)
DeletePart(answer) ==
    /\ pc = "delete"
    /\ todo # <<>>
    /\ calls' = Append(calls, [op |-> "delete", what |-> Head(todo)])
    /\ parts' = Append(parts, answer)
    /\ todo' = Tail(todo)
    /\ UNCHANGED <<params, cluster, live, pc, results, outcome>>
    /\ UNCHANGED <<yvars, cvars, wvars>>

\* state == 'absent': return {'changed': True, 'results': api_rval, ...}
AbsentReturn ==
    /\ pc = "delete"
    /\ todo = <<>>
    /\ params.state = "absent"
    /\ Finish(Returned(TRUE, "absent"))
    /\ UNCHANGED <<params, cluster, live, calls, parts, results>>
    /\ UNCHANGED <<yvars, cvars, wvars>>

\* a delete result Router.update() does not tolerate
DeleteFailed(part) == part.returncode # 0 /\ ~SaysNotFound(part)

\* Router.update() after delete(): return parts on a failed delete (and
\* run_ansible then indexes that list with 'returncode'), else go to sleep
UpdateCheckParts ==
    /\ pc = "delete"
    /\ todo = <<>>
    /\ params.state = "present"
    /\ IF \E i \in 1..Len(parts) : DeleteFailed(parts[i])
       THEN Finish(Threw("TypeError"))
       ELSE /\ pc' = "sleep"
            /\ UNCHANGED <<todo, outcome>>
    /\ UNCHANGED <<params, cluster, live, calls, parts, results>>
    /\ UNCHANGED <<yvars, cvars, wvars>>

\* time.sleep(15)
Sleep ==
    /\ pc = "sleep"
    /\ pc' = "prepare"
    /\ UNCHANGED <<params, cluster, live, calls, parts, results, todo, outcome>>
    /\ UNCHANGED <<yvars, cvars, wvars>>

\* Router.create() after prepare_router answered prep
AfterPrepare(prep) ==
    IF prep.exc # "" THEN Finish(Threw(prep.exc))
    ELSE /\ pc' = "create"
         /\ todo' = oc_types
         /\ UNCHANGED outcome

\* Router.create(): prepare_router(), then router_prep (prepare_router again)
CreatePrepare ==
    /\ pc = "prepare"
    /\ AfterPrepare(prepare_router(params, cluster.rendered))
    /\ UNCHANGED <<params, cluster, live, calls, parts, results>>
    /\ UNCHANGED <<yvars, cvars, wvars>>

\* Router.create(): the next self._create(oc_data['path'])
CreatePart(answer) ==
    /\ pc = "create"
    /\ todo # <<>>
    /\ calls' = Append(calls, [op |-> "create", what |-> Head(todo)])
    /\ results' = Append(results, answer)
    /\ todo' = Tail(todo)
    /\ UNCHANGED <<params, cluster, live, pc, parts, outcome>>
    /\ UNCHANGED <<yvars, cvars, wvars>>

\* the rval loop as if "already exist" were not tolerated
RECURSIVE CreateRvalStrict(_, _, _)
CreateRvalStrict(res, i, rval) ==
    IF i > Len(res) THEN rval
    ELSE IF res[i].returncode # 0
    THEN CreateRvalStrict(res, i + 1, res[i].returncode)
    ELSE CreateRvalStrict(res, i + 1, rval)

\* the rval loop as if every tolerated result set rval back to 0
RECURSIVE CreateRvalReset(_, _, _)
CreateRvalReset(res, i, rval) ==
    IF i > Len(res) THEN rval
    ELSE IF res[i].returncode # 0 /\ ~SaysAlreadyExist(res[i])
    THEN CreateRvalReset(res, i + 1, res[i].returncode)
    ELSE CreateRvalReset(res, i + 1, 0)

\* the rval loop of Router.create() over results[i..]
RECURSIVE CreateRval(_, _, _)
CreateRval(res, i, rval) ==
    IF i > Len(res) THEN rval
    ELSE IF res[i].returncode # 0 /\ ~SaysAlreadyExist(res[i])
    THEN CreateRval(res, i + 1, res[i].returncode)
    ELSE CreateRval(res, i + 1, rval)

\* create() returns {'returncode': rval, ...}; run_ansible reports it
CreateReturn ==
    /\ pc = "create"
    /\ todo = <<>>
    /\ IF CreateRval(results, 1, 0) # 0 THEN Finish(ReturnedFailed)
       ELSE Finish(Returned(TRUE, "present"))
    /\ UNCHANGED <<params, cluster, live, calls, parts, results>>
    /\ UNCHANGED <<yvars, cvars, wvars>>

RNext ==
    \/ Construct
    \/ DecideAbsent
    \/ DecidePresent
    \/ \E a \in DeleteAnswers : DeletePart(a)
    \/ AbsentReturn
    \/ UpdateCheckParts
    \/ Sleep
    \/ CreatePrepare
    \/ \E a \in CreateAnswers : CreatePart(a)
    \/ CreateReturn

-----------------------------------------------------------------------------
(* Utils.check_def_equal: one call as a state machine *)

\* what the compared documents are built from
CScalars == {PyInt(1), PyInt(2), PyStr("x")}
CMappings == {D1(k, PyInt(n)) : k \in {"x", "status"}, n \in {1, 2}}
CElements == {PyInt(1), PyInt(2)} \cup CMappings
CLists ==
    {EmptyList} \cup {PyList(<<e>>) : e \in CElements}
    \cup {PyList(<<e1, e2>>) : e1, e2 \in CElements}
CNested ==
    { PyList(<<PyList(<<D1("status", PyInt(1))>>)>>),
      PyList(<<PyList(<<D1("status", PyInt(2))>>)>>),
      PyList(<<D1("x", D1("y", PyInt(1)))>>),
      PyList(<<D1("x", D1("y", PyInt(2)))>>) }

\* a mapping of two keys, by itself and as the element of a list
CWide ==
    { D2("x", PyInt(1), "y", PyInt(2)),
      PyList(<<D2("x", PyInt(1), "y", PyInt(2))>>) }

\* the documents compared: {a: v} for every such value, and documents of
\* two keys like the ones a cluster returns
CDocs ==
    {D1("a", v) : v \in CScalars \cup CMappings \cup CLists \cup CNested \cup CWide}
    \cup { D2("metadata", D1("name", PyStr("x")), "spec", D1("replicas", PyInt(2))),
           D1("spec", D1("replicas", PyInt(2))),
           D1("spec", D1("replicas", PyInt(1))),
           D2("a", PyList(<<PyInt(1), PyInt(2)>>), "b", D1("x", PyInt(1))),
           D2("a", PyList(<<PyInt(2), PyInt(1)>>), "b", D1("x", PyInt(1))),
           D2("a", PyList(<<PyInt(1)>>), "b", D1("x", PyInt(1))) }

\* the skip_keys arguments
CSkips == {{}, {"x"}}

CCall(u, r, k) ==
    [user_def |-> u, result_def |-> r, skip_keys |-> k, returned |-> FALSE,
     equal |-> FALSE]

CInit == cmp \in {CCall(u, r, k) : u \in CDocs, r \in CDocs, k \in CSkips}

\* Utils.check_def_equal(user_def, result_def, skip_keys) runs and returns
Compare ==
    /\ ~cmp.returned
    /\ cmp' = [cmp EXCEPT !.returned = TRUE,
                          !.equal = check_def_equal(cmp.user_def, cmp.result_def,
                                                    cmp.skip_keys)]
    /\ UNCHANGED <<yvars, rvars, wvars>>

CNext == Compare

\* no call of check_def_equal is under way
CIdle == cmp = CCall(EmptyDict, EmptyDict, {})

-----------------------------------------------------------------------------
(* The wrappers: DeploymentConfig, ServiceAccount, Secret, RoleBinding *)

\* number of method calls explored on one wrapper object
MaxCalls == 3

\* the cached properties, by the key of the document they read
Fields ==
    {"secrets", "imagePullSecrets", "data", "subjects", "groupNames", "userNames"}

PathOf(f) ==
    CASE f = "secrets" -> secrets_path
      [] f = "imagePullSecrets" -> image_pull_secrets_path
      [] f = "data" -> secret_path
      [] f = "subjects" -> subjects_path
      [] f = "groupNames" -> group_names_path
      [] OTHER -> user_names_path

\* the `or []` / `or {}` of the getters
EmptyOf(f) == IF f = "data" THEN EmptyDict ELSE EmptyList

\* A cached property self._x.  Unset is None.  Once set it holds an object:
\* either the very list (dict) that sits in the document at the path
\* (attached: a change of the one is a change of the other), or an object of
\* its own whose value is val.

\* the value of the object the cache holds
CacheValue(w, f) ==
    IF w.cache[f].attached THEN YeditGet(w.yaml_dict, PathOf(f))
    ELSE w.cache[f].val

\* self.get(path) or []: the object in the document when it is truthy,
\* else a new empty one
Fetch(w, f) ==
    IF Truthy(YeditGet(w.yaml_dict, PathOf(f)))
    THEN [set |-> TRUE, attached |-> TRUE, val |-> PyNone]
    ELSE [set |-> TRUE, attached |-> FALSE, val |-> EmptyOf(f)]

\* the test of the property getter: `is None` / `== None`, and `not
\* self._secrets` for ServiceAccount.secrets
Stale(w, f) ==
    IF w.kind = "ServiceAccount" /\ f = "secrets"
    THEN ~w.cache[f].set \/ ~Truthy(CacheValue(w, f))
    ELSE ~w.cache[f].set

\* the property getter: the wrapper once the property was read
Property(w, f) == IF Stale(w, f) THEN [w EXCEPT !.cache[f] = Fetch(w, f)] ELSE w

\* a change made in place to the object the cache holds
WriteCache(w, f, new) ==
    IF w.cache[f].attached
    THEN [w EXCEPT !.yaml_dict = SetAt(w.yaml_dict, PathOf(f), new)]
    ELSE [w EXCEPT !.cache[f].val = new]

\* self.yaml_dict = tmp_copy: the objects the caches hold stay in the old
\* document
Detached(w) ==
    [g \in Fields |->
        IF w.cache[g].attached
        THEN [set |-> TRUE, attached |-> FALSE,
              val |-> YeditGet(w.yaml_dict, PathOf(g))]
        ELSE w.cache[g]]

\* self.put(path, value) called by a wrapper method (no put on these
\* one-key paths raises)
WrapPut(w, path, value) ==
    LET r == YeditPut(w.yaml_dict, path, value) IN
    IF r.changed THEN [w EXCEPT !.yaml_dict = r.doc, !.cache = Detached(w)]
    ELSE w

\* if self.x: self.x.append(item) else: self.put(path, [item])
AppendOrPut(w, f, item) ==
    IF Truthy(CacheValue(w, f))
    THEN WriteCache(w, f, PyList(Append(CacheValue(w, f)[2], item)))
    ELSE WrapPut(w, PathOf(f), PyList(<<item>>))

\* RoleBinding.add_subject / add_group_names / add_user_name
add_subject(w, inc_subject) ==
    AppendOrPut(Property(w, "subjects"), "subjects", inc_subject)
add_group_names(w, inc_group_names) ==
    AppendOrPut(Property(w, "groupNames"), "groupNames", inc_group_names)
add_user_name(w, inc_user_name) ==
    AppendOrPut(Property(w, "userNames"), "userNames", inc_user_name)

\* ServiceAccount.add_secret / add_image_pull_secret
add_secret(w, inc_secret) ==
    AppendOrPut(Property(w, "secrets"), "secrets", D1("name", inc_secret))
add_image_pull_secret(w, inc_secret) ==
    AppendOrPut(Property(w, "imagePullSecrets"), "imagePullSecrets",
                D1("name", inc_secret))

\* if self.secrets: self.secrets[key] = value else: self.put('data', {key: value})
SetOrPut(w, key, value) ==
    IF Truthy(CacheValue(w, "data"))
    THEN WriteCache(w, "data", DictSet(CacheValue(w, "data"), key, value))
    ELSE WrapPut(w, secret_path, D1(key, value))

\* Secret.add_secret(key, value)
SecretAddSecret(w, key, value) == SetOrPut(Property(w, "data"), key, value)

\* the index of the first element of l whose 'name' is n, -1 for None
NamedIdx(l, n) ==
    IF \E i \in 1..PyLen(l) : l[2][i][2]["name"] = n
    THEN (CHOOSE i \in 1..PyLen(l) :
              /\ l[2][i][2]["name"] = n
              /\ \A j \in 1..(i - 1) : l[2][j][2]["name"] # n) - 1
    ELSE 0 - 1

\* if remove_idx: del self.x[remove_idx]; return True -- else return False
DeleteNamed(w, f, inc_secret) ==
    IF NamedIdx(CacheValue(w, f), inc_secret) > 0
    THEN [w |-> WriteCache(w, f, ListDel(CacheValue(w, f),
                                          NamedIdx(CacheValue(w, f), inc_secret) + 1)),
          ret |-> "True"]
    ELSE [w |-> w, ret |-> "False"]

\* ServiceAccount.delete_secret / delete_image_pull_secret
delete_secret(w, inc_secret) ==
    DeleteNamed(Property(w, "secrets"), "secrets", inc_secret)
delete_image_pull_secret(w, inc_secret) ==
    DeleteNamed(Property(w, "imagePullSecrets"), "imagePullSecrets", inc_secret)

\* DeploymentConfig.get_env_vars(): self.get(env_path) or []
get_env_vars(doc) == EnvOf(YeditGet(doc, env_path))

\* the loop of delete_env_var over keys[i..]: idx is the index kept from an
\* earlier key (-1 for None); the array as the loop leaves it, whether an
\* entry was deleted, and the exception that ended the loop
RECURSIVE DeleteEnvWalk(_, _, _, _, _)
DeleteEnvWalk(env, keys, i, idx, modified) ==
    IF i > Len(keys) THEN [env |-> env, modified |-> modified, exc |-> ""]
    ELSE LET found == NamedIdx(env, keys[i])
             idx1 == IF found >= 0 THEN found ELSE idx
         IN  IF idx1 > 0
             THEN IF idx1 >= PyLen(env)
                  THEN [env |-> env, modified |-> TRUE, exc |-> "IndexError"]
                  ELSE DeleteEnvWalk(ListDel(env, idx1 + 1), keys, i + 1, idx1, TRUE)
             ELSE DeleteEnvWalk(env, keys, i + 1, idx1, modified)

\* the document once the loop is over: the array it worked on is the one
\* in the document unless get_env_vars made a new one
AfterDeleteEnv(doc, r) ==
    [doc |-> IF Truthy(YeditGet(doc, env_path)) THEN SetAt(doc, env_path, r.env)
             ELSE doc,
     ret |-> IF r.exc # "" THEN r.exc ELSE IF r.modified THEN "True" ELSE "False"]

\* DeploymentConfig.delete_env_var(keys); keys is a list of names (a single
\* name is put in a list).  Iterating an env that is a dict gives its keys,
\* and env_var['name'] on a str is a TypeError.
delete_env_var(doc, keys) ==
    IF IsDict(get_env_vars(doc)) THEN [doc |-> doc, ret |-> "TypeError"]
    ELSE AfterDeleteEnv(doc, DeleteEnvWalk(get_env_vars(doc), keys, 1, 0 - 1, FALSE))

\* DeploymentConfig.add_env_value(key, value)
add_env_value(doc, key, value) ==
    IF Truthy(get_env_vars(doc))
    THEN IF IsDict(get_env_vars(doc))
         THEN [doc |-> doc, ret |-> "AttributeError"]
         ELSE [doc |-> SetAt(doc, env_path,
                             PyList(Append(get_env_vars(doc)[2],
                                           PyDict([name |-> key, value |-> value])))),
               ret |-> "True"]
    ELSE [doc |-> YeditPut(doc, env_path, PyDict([name |-> key, value |-> value])).doc,
          ret |-> "True"]

\* DeploymentConfig.update_env_var(key, value)
update_env_var(doc, key, value) ==
    IF IsDict(get_env_vars(doc)) THEN [doc |-> doc, ret |-> "TypeError"]
    ELSE IF NamedIdx(get_env_vars(doc), key) > 0
    THEN [doc |-> SetAt(doc, env_path,
                        ListSet(get_env_vars(doc), NamedIdx(get_env_vars(doc), key) + 1,
                                DictSet(get_env_vars(doc)[2][NamedIdx(get_env_vars(doc), key) + 1],
                                        "value", value))),
          ret |-> "True"]
    ELSE add_env_value(doc, key, value)

\* ---- one wrapper object and the calls made on it ----

\* the names used for secrets, subjects, groups, users, env vars and keys
Names == {"A", "B"}
Named(n) == D1("name", PyStr(n))

\* a deployment with this env array in its first container
DCWith(env) ==
    D1("spec", D1("template", D1("spec", D1("containers", PyList(<<D1("env", env)>>)))))

\* the documents the wrappers are made from, with and without the fields
WDocs(kind) ==
    CASE kind = "DeploymentConfig" ->
           { D1("spec", D1("template", D1("spec",
                 D1("containers", PyList(<<Named("router")>>))))),
             DCWith(EmptyList),
             DCWith(PyList(<<EnvVar("A", "1")>>)),
             DCWith(PyList(<<EnvVar("A", "1"), EnvVar("B", "1")>>)),
             DCWith(PyList(<<EnvVar("B", "1"), EnvVar("A", "1"), EnvVar("C", "1")>>)) }
      [] kind = "ServiceAccount" ->
           { D1("kind", PyStr("ServiceAccount")),
             D1("secrets", EmptyList),
             D1("secrets", PyList(<<Named("A")>>)),
             D2("secrets", PyList(<<Named("B"), Named("A")>>),
                "imagePullSecrets", PyList(<<Named("A"), Named("B")>>)) }
      [] kind = "Secret" ->
           { D1("kind", PyStr("Secret")),
             D1("data", EmptyDict),
             D1("data", D1("C", PyStr("1"))) }
      [] OTHER ->
           { D1("kind", PyStr("RoleBinding")),
             D1("subjects", EmptyList),
             D1("subjects", PyList(<<Named("C")>>)),
             D2("groupNames", PyList(<<PyStr("C")>>), "userNames", PyNone) }

\* the keys arguments of delete_env_var
EnvKeys == {<<PyStr(n)>> : n \in Names} \cup {<<PyStr("A"), PyStr("C")>>}

NewWrapper(kind, content) ==
    [kind |-> kind, yaml_dict |-> content,
     cache |-> [f \in Fields |-> [set |-> FALSE, attached |-> FALSE, val |-> PyNone]],
     calls |-> <<>>]

WInit ==
    \E kind \in {"DeploymentConfig", "ServiceAccount", "Secret", "RoleBinding"} :
        \E content \in WDocs(kind) : wrap = NewWrapper(kind, content)

\* a method that changes the wrapper to w and returns ret was called; the
\* record of the call keeps the document it was made on
WCall(op, args, w, ret) ==
    /\ Len(wrap.calls) < MaxCalls
    /\ wrap' = [w EXCEPT !.calls =
                    Append(wrap.calls, [op |-> op, args |-> args, ret |-> ret,
                                        before |-> wrap.yaml_dict])]
    /\ UNCHANGED <<yvars, rvars, cvars>>

WAddSubject(n) ==
    /\ wrap.kind = "RoleBinding"
    /\ WCall("add_subject", <<Named(n)>>,
             add_subject(wrap, Named(n)), "True")
WAddGroupNames(n) ==
    /\ wrap.kind = "RoleBinding"
    /\ WCall("add_group_names", <<PyStr(n)>>,
             add_group_names(wrap, PyStr(n)), "True")
WAddUserName(n) ==
    /\ wrap.kind = "RoleBinding"
    /\ WCall("add_user_name", <<PyStr(n)>>,
             add_user_name(wrap, PyStr(n)), "True")
WSecretAddSecret(k) ==
    /\ wrap.kind = "Secret"
    /\ WCall("add_secret", <<PyStr(k), PyStr("1")>>,
             SecretAddSecret(wrap, k, PyStr("1")), "True")
WAddSecret(n) ==
    /\ wrap.kind = "ServiceAccount"
    /\ WCall("add_secret", <<PyStr(n)>>,
             add_secret(wrap, PyStr(n)), "None")
WAddImagePullSecret(n) ==
    /\ wrap.kind = "ServiceAccount"
    /\ WCall("add_image_pull_secret", <<PyStr(n)>>,
             add_image_pull_secret(wrap, PyStr(n)), "None")
WDeleteSecret(n) ==
    /\ wrap.kind = "ServiceAccount"
    /\ WCall("delete_secret", <<PyStr(n)>>,
             delete_secret(wrap, PyStr(n)).w, delete_secret(wrap, PyStr(n)).ret)
WDeleteImagePullSecret(n) ==
    /\ wrap.kind = "ServiceAccount"
    /\ WCall("delete_image_pull_secret", <<PyStr(n)>>,
             delete_image_pull_secret(wrap, PyStr(n)).w,
             delete_image_pull_secret(wrap, PyStr(n)).ret)
WDeleteEnvVar(keys) ==
    /\ wrap.kind = "DeploymentConfig"
    /\ WCall("delete_env_var", keys,
             [wrap EXCEPT !.yaml_dict = delete_env_var(wrap.yaml_dict, keys).doc],
             delete_env_var(wrap.yaml_dict, keys).ret)
WUpdateEnvVar(n, v) ==
    /\ wrap.kind = "DeploymentConfig"
    /\ WCall("update_env_var", <<PyStr(n), PyStr(v)>>,
             [wrap EXCEPT !.yaml_dict =
                 update_env_var(wrap.yaml_dict, PyStr(n), PyStr(v)).doc],
             update_env_var(wrap.yaml_dict, PyStr(n), PyStr(v)).ret)

WNext ==
    \/ \E n \in Names : WAddSubject(n)
    \/ \E n \in Names : WAddGroupNames(n)
    \/ \E n \in Names : WAddUserName(n)
    \/ \E k \in Names : WSecretAddSecret(k)
    \/ \E n \in Names : WAddSecret(n)
    \/ \E n \in Names : WAddImagePullSecret(n)
    \/ \E n \in Names : WDeleteSecret(n)
    \/ \E n \in Names : WDeleteImagePullSecret(n)
    \/ \E keys \in EnvKeys : WDeleteEnvVar(keys)
    \/ \E n \in Names, v \in {"1", "2"} : WUpdateEnvVar(n, v)

\* no wrapper object is in use
WIdle == wrap = NewWrapper("none", EmptyDict)

-----------------------------------------------------------------------------
(* The specifications *)

\* the Yedit variables while a Router pass runs, and the reverse
YIdle == yaml_dict = EmptyDict /\ ylast = NoCall /\ yprev = NoCall /\ ynops = 0
RIdle ==
    /\ params = [state |-> "present", check_mode |-> TRUE, edits |-> <<>>,
                 stats_password |-> PyNone]
    /\ cluster = [present |-> {}, variant |-> "same", rendered |-> OcTypes]
    /\ live = NoLive
    /\ pc = "idle"
    /\ calls = <<>>
    /\ parts = <<>>
    /\ results = <<>>
    /\ todo = <<>>
    /\ outcome = Pending

Init == RInit /\ YIdle /\ CIdle /\ WIdle
Next == RNext
\* one pass of Router.run_ansible
Spec == Init /\ [][Next]_vars

InitYedit == YInit /\ RIdle /\ CIdle /\ WIdle
NextYedit == YNext
\* calls on one Yedit document
SpecYedit == InitYedit /\ [][NextYedit]_vars

InitCompare == CInit /\ YIdle /\ RIdle /\ WIdle
NextCompare == CNext
\* one call of Utils.check_def_equal
SpecCompare == InitCompare /\ [][NextCompare]_vars

InitWrappers == WInit /\ YIdle /\ RIdle /\ CIdle
NextWrappers == WNext
\* calls on one wrapper object
SpecWrappers == InitWrappers /\ [][NextWrappers]_vars

-----------------------------------------------------------------------------
(* Properties of one pass of Router.run_ansible *)

\* the four parts exists() and needs_update() look at were fetched
FourLive == {"dc", "svc", "sa", "secret"} \subseteq cluster.present

\* the edits and stats_password the pass runs with
ConfigOf(prm) == [edits |-> prm.edits, stats_password |-> prm.stats_password]

\* the fetched parts a pass can find when the four compared parts are live
LiveMaps ==
    { [k \in PartKinds |-> IF k \in pr THEN LiveObject(k, v) ELSE PyNone] :
        pr \in {PartKinds, PartKinds \ {"clusterrolebinding"}}, v \in Variants }

\* the configurations, renders and fetched parts a comparison can meet
CompareCases ==
    {<<c, rd, lv>> : c \in Configs, rd \in Renders, lv \in LiveMaps}

\* the render holds all five parts and the edits leave a usable deployment
UsableCases ==
    { x \in {<<c, rd>> : c \in Configs, rd \in Renders} :
        prepare_router(x[1], x[2]).exc = "" }
RenderUsable == <<ConfigOf(params), cluster.rendered>> \in UsableCases

\* every call issued so far is a call of kind op
AllCalls(op) == \A i \in 1..Len(calls) : calls[i].op = op

\* calls[from..] are creates, one per rendered kind
CreatesFrom(from) ==
    /\ Len(calls) = from - 1 + Cardinality(OcTypes)
    /\ \A i \in from..Len(calls) : calls[i].op = "create"
    /\ {calls[i].what : i \in from..Len(calls)} = OcTypes

\* calls[1..5] are the deletes of the five router parts
DeletesFirst ==
    /\ Len(calls) >= Len(router_parts)
    /\ \A i \in 1..Len(router_parts) :
           calls[i] = [op |-> "delete", what |-> router_parts[i]]

\* C1: with state=present, not in check mode and no managed part live, the
\* finished pass has issued exactly one create call per rendered part
\* (DeploymentConfig, Service, ServiceAccount, Secret, ClusterRoleBinding)
\* and no delete; whatever subset of the creates answered "already exist"
\* while the others answered 0, it returned changed=true, state=present.
C1_CreateAllParts ==
    (/\ pc = "done"
     /\ params.state = "present"
     /\ ~params.check_mode
     /\ cluster.present = {}
     /\ RenderUsable)
    => /\ CreatesFrom(1)
       /\ Len(results) = Len(calls)
       /\ (\A i \in 1..Len(results) : results[i] \in {Ok, AlreadyExists})
              => outcome = Returned(TRUE, "present")

C1_Witness ==
    /\ pc = "done"
    /\ params.state = "present"
    /\ ~params.check_mode
    /\ cluster.present = {}
    /\ Len(results) = Len(oc_types)
    /\ results[1] = AlreadyExists
    /\ results[2] = Ok
    /\ results[4] = AlreadyExists
    /\ \A i \in 1..Len(results) : results[i] \in {Ok, AlreadyExists}
    /\ outcome = Returned(TRUE, "present")

\* the rendered and the live deployment, service, service account and secret
\* compare equal, each under the skip list needs_update gives it
AllPartsEqualFor(prep, stats_password, lv) ==
    /\ prep.exc = ""
    /\ ServiceAccountEqual(prep.obj, lv)
    /\ SecretEqual(prep.obj, lv)
    /\ ServiceEqual(prep.obj, lv)
    /\ DeploymentEqual(prep.obj, lv, stats_password)
EqualCases ==
    { x \in CompareCases :
        AllPartsEqualFor(prepare_router(x[1], x[2]), x[1].stats_password, x[3]) }
AllPartsEqual == <<ConfigOf(params), cluster.rendered, live>> \in EqualCases

\* C2: with state=present, when the live deployment, service, service
\* account and secret each compare equal to the rendered document under
\* its skip list, the pass issues no delete and no create call at any
\* point and returns changed=false, state=present.
C2_NoChangeWhenEqual ==
    (/\ pc # "start"
     /\ params.state = "present"
     /\ FourLive
     /\ AllPartsEqual)
    => /\ calls = <<>>
       /\ pc \in {"decide", "done"}
       /\ pc = "done" => outcome = Returned(FALSE, "present")

C2_Witness ==
    /\ pc = "done"
    /\ params.state = "present"
    /\ ~params.check_mode
    /\ FourLive
    /\ AllPartsEqual
    /\ calls = <<>>
    /\ outcome = Returned(FALSE, "present")

\* "spec.selector"
selector_path ==
    <<"s", "p", "e", "c", ".", "s", "e", "l", "e", "c", "t", "o", "r">>

\* the live service differs from the rendered one in spec.selector and in
\* nothing else that is compared; the other three parts compare equal
OnlySelectorDiffersFor(prep, stats_password, lv) ==
    /\ prep.exc = ""
    /\ YeditGet(lv["svc"], selector_path)
           # YeditGet(prep.obj["Service"], selector_path)
    /\ ServiceEqual(prep.obj,
                    [lv EXCEPT !["svc"] =
                        SetAt(lv["svc"], selector_path,
                              YeditGet(prep.obj["Service"], selector_path))])
    /\ ServiceAccountEqual(prep.obj, lv)
    /\ SecretEqual(prep.obj, lv)
    /\ DeploymentEqual(prep.obj, lv, stats_password)
SelectorCases ==
    { x \in CompareCases :
        OnlySelectorDiffersFor(prepare_router(x[1], x[2]), x[1].stats_password,
                               x[3]) }
OnlySelectorDiffers ==
    <<ConfigOf(params), cluster.rendered, live>> \in SelectorCases

\* C3: with state=present, the four compared parts live and the live
\* service differing from the rendered one only in spec.selector,
\* needs_update answers True; not in check mode the pass deletes the five
\* parts, sleeps, and only then creates; when every create then answers 0
\* it returns changed=true, state=present.
C3_SelectorDriftUpdates ==
    [][(/\ pc # "start"
        /\ params.state = "present"
        /\ ~params.check_mode
        /\ FourLive
        /\ OnlySelectorDiffers)
       => /\ pc = "decide"
                 => /\ needs_update(params, cluster.rendered, live)
                        = [exc |-> "", drift |-> TRUE]
                    /\ pc' = "delete"
                    /\ calls' = <<>>
          /\ (pc = "delete" /\ pc' # "delete")
                 => DeletesFirst /\ Len(calls) = Len(router_parts)
          /\ pc' = "prepare" => pc = "sleep" /\ AllCalls("delete")
          /\ pc' = "create" => DeletesFirst
          /\ (pc = "create" /\ pc' = "done"
              /\ \A i \in 1..Len(results) : results[i] = Ok)
                 => /\ DeletesFirst
                    /\ CreatesFrom(Len(router_parts) + 1)
                    /\ outcome' = Returned(TRUE, "present")]_vars

C3_Witness ==
    /\ pc = "done"
    /\ params.state = "present"
    /\ ~params.check_mode
    /\ FourLive
    /\ Len(parts) = Len(router_parts)
    /\ Len(results) = Len(oc_types)
    /\ \A i \in 1..Len(results) : results[i] = Ok
    /\ outcome = Returned(TRUE, "present")
    /\ OnlySelectorDiffers

NoChange(r) == ~r.any /\ ~r.raised
UnchangedConfigs ==
    { c \in Configs :
        /\ Len(c.edits) > 0
        /\ NoChange(ApplyEdits(RenderedDC(c.stats_password), c.edits, 1, FALSE)) }
EditsChangeNothing == ConfigOf(params) \in UnchangedConfigs

\* the pass is one that applies the edits: state=present, and either the
\* router exists (needs_update prepares) or it is to be created
AppliesEdits == params.state = "present" /\ (FourLive \/ ~params.check_mode)

\* C5: when edits are configured and none reports a change on the rendered
\* deployment, a pass that applies them ends by an exception
\* (add_modifications answered None, the render is unusable) and has
\* issued no create and no delete call.
C5_UnchangedEditsAbort ==
    (AppliesEdits /\ EditsChangeNothing)
    => /\ calls = <<>>
       /\ pc \in {"start", "decide", "prepare", "done"}
       /\ pc = "done" => outcome = Threw("AttributeError")

C5_Witness ==
    /\ pc = "done"
    /\ AppliesEdits
    /\ ~FourLive
    /\ EditsChangeNothing
    /\ calls = <<>>
    /\ outcome = Threw("AttributeError")

\* some create result is non-zero with an error other than "already exist"
SomeCreateFailed ==
    \E i \in 1..Len(results) :
        results[i].returncode # 0 /\ ~SaysAlreadyExist(results[i])

\* C6: when the create loop has run, create() reports a non-zero returncode
\* and the pass returns failed if some part's create answered non-zero with
\* an error other than "already exist", whichever part and whatever the
\* later results; otherwise it reports 0 and the pass is not failed.
C6_CreateFailureIsFatal ==
    (pc = "done" /\ Len(results) = Len(oc_types))
    => IF SomeCreateFailed
       THEN CreateRval(results, 1, 0) # 0 /\ outcome = ReturnedFailed
       ELSE CreateRval(results, 1, 0) = 0
            /\ outcome = Returned(TRUE, "present")

C6_Witness ==
    /\ pc = "done"
    /\ Len(results) = Len(oc_types)
    /\ results[1] = Forbidden
    /\ results[2] = AlreadyExists
    /\ \A i \in 3..Len(results) : results[i] = Ok
    /\ outcome = ReturnedFailed

\* C7: with state=absent and none of the managed parts live, the pass
\* issues no delete call and returns changed=false.
C7_AbsentNothingLive ==
    (params.state = "absent" /\ cluster.present = {})
    => /\ calls = <<>>
       /\ pc \in {"start", "decide", "done"}
       /\ pc = "done" => outcome = Returned(FALSE, "absent")

C7_Witness ==
    /\ pc = "done"
    /\ params.state = "absent"
    /\ ~params.check_mode
    /\ cluster.present = {}
    /\ calls = <<>>
    /\ outcome = Returned(FALSE, "absent")

\* C8, as the specification states it: with state=absent, not in check
\* mode and the router existing, a pass in which the delete of one of the
\* five parts answered non-zero (and not "not found") is reported as
\* failed, not as changed=true.
C8_DeleteFailureReported ==
    (/\ pc = "done"
     /\ params.state = "absent"
     /\ ~params.check_mode
     /\ \E i \in 1..Len(parts) : DeleteFailed(parts[i]))
    => outcome.failed /\ ~outcome.changed

\* the pass is an update: state=present and exists() answered true
UpdatePass == params.state = "present" /\ exists(live)

\* some call issued so far is a create
SomeCreate == \E i \in 1..Len(calls) : calls[i].op = "create"

\* calls[1..5] are deletes, one for each of the five managed parts
FiveDeletesFirst ==
    /\ Len(calls) >= Cardinality(PartKinds)
    /\ \A i \in 1..Cardinality(PartKinds) : calls[i].op = "delete"
    /\ {calls[i].what : i \in 1..Cardinality(PartKinds)} = PartKinds

\* C15: in an update, when the settling wait is reached a delete call has
\* been issued for each of the five managed parts and nothing else; every
\* create call of an update comes after those five deletes, and in no pass
\* does a create call precede a delete call.
C15_DeleteAllThenCreate ==
    /\ pc = "sleep"
           => /\ FiveDeletesFirst
              /\ Len(calls) = Cardinality(PartKinds)
    /\ (UpdatePass /\ SomeCreate)
           => /\ FiveDeletesFirst
              /\ \A i \in (Cardinality(PartKinds) + 1)..Len(calls) :
                     calls[i].op = "create"
    /\ \A i, j \in 1..Len(calls) :
           i < j => ~(calls[i].op = "create" /\ calls[j].op = "delete")

C15_Witness ==
    /\ pc = "done"
    /\ UpdatePass
    /\ Len(calls) = Cardinality(PartKinds) + Cardinality(OcTypes)
    /\ calls[5].op = "delete"
    /\ calls[6].op = "create"
    /\ parts[2] = NotFound
    /\ outcome = Returned(TRUE, "present")

\* C16, as the specification states it: in an update, when the delete of a
\* part answered non-zero with an error other than "not found", no create
\* call is issued and the pass returns {failed: true, msg: ...}.
C16_UpdateDeleteFailureIsFailed ==
    (/\ pc = "done"
     /\ UpdatePass
     /\ \E i \in 1..Len(parts) : DeleteFailed(parts[i]))
    => /\ ~SomeCreate
       /\ outcome = ReturnedFailed

-----------------------------------------------------------------------------
(* Properties of Yedit *)

\* the last two calls were made on the same path, the first of them op
Then(op1, op2) ==
    /\ yprev.op = op1
    /\ ylast.op = op2
    /\ ylast.path = yprev.path

\* C9, as the specification states it: for every document, every path of
\* the grammar (the empty root path, paths ending in an index, paths whose
\* intermediate keys are missing or hold a scalar) and every value, a
\* get(P) after put(P, V) returns V, and a put(P, V) right after
\* put(P, V) returns changed=false.
C9_PutGetRoundTrip ==
    /\ (Then("put", "get") /\ ~yprev.raised)
           => ylast.ret = yprev.value
    /\ (Then("put", "put") /\ ~yprev.raised /\ ylast.value = yprev.value)
           => ~ylast.changed /\ ~ylast.raised

\* the last segment of a path
LastSegment(path) ==
    parse_key(path, separator)[Len(parse_key(path, separator))]

\* what the path without its last segment resolves to
ParentEntry(doc, path) ==
    GetWalk(doc, SubSeq(parse_key(path, separator), 1,
                        Len(parse_key(path, separator)) - 1), 1)

\* the path ends in a key, or in the index of the last element of a sequence
EndsInKeyOrLastIndex(doc, path) ==
    \/ LastSegment(path).dict_key # ""
    \/ /\ LastSegment(path).arr_ind # <<>>
       /\ IsList(ParentEntry(doc, path))
       /\ IntOf(LastSegment(path).arr_ind) = PyLen(ParentEntry(doc, path)) - 1

\* delete(path) ran on a path that resolved to a value, then get(path)
DeleteThenGet ==
    /\ Then("delete", "get")
    /\ yprev.path # <<>>
    /\ ~yprev.raised
    /\ yprev.ret # PyNone

\* C10, as the specification states it: for every path that resolves to a
\* value, a mapping key or a sequence index (also one with elements after
\* it), get(path) after delete(path) returns None.
C10_DeleteThenGetNone ==
    DeleteThenGet => ylast.ret = PyNone

\* C10, as the code has it: get(path) after delete(path) returns None when
\* the path ended in a mapping key or in the index of the last element of
\* its sequence; after the delete of an earlier index the later elements
\* have moved down and get(path) returns the element that followed.
C10_DeleteLastThenGetNone ==
    DeleteThenGet
    => /\ EndsInKeyOrLastIndex(yprev.before, yprev.path)
              => yprev.changed /\ ylast.ret = PyNone
       /\ (/\ LastSegment(yprev.path).arr_ind # <<>>
           /\ IntOf(LastSegment(yprev.path).arr_ind) >= 0
           /\ IntOf(LastSegment(yprev.path).arr_ind)
                  < PyLen(ParentEntry(yprev.before, yprev.path)) - 1)
              => /\ yprev.changed
                 /\ ylast.ret =
                        ParentEntry(yprev.before, yprev.path)[2][
                            IntOf(LastSegment(yprev.path).arr_ind) + 2]

C10_Witness ==
    /\ DeleteThenGet
    /\ yprev.before = D1("a", PyList(<<PyInt(1), PyInt(2)>>))
    /\ yprev.path = <<"a", "[", "1", "]">>
    /\ yprev.changed
    /\ yaml_dict = D1("a", PyList(<<PyInt(1)>>))
    /\ ylast.ret = PyNone

\* what the path of call c resolved to on the document the call was made on
TargetOf(c) == get_entry(c.before, c.path, separator)

\* x is an element of the list l
IsElement(l, x) == \E i \in 1..PyLen(l) : l[2][i] = x

\* call c is update(path, value) on a sequence, no index and no curr_value
PlainUpdate(c) ==
    /\ c.op = "update"
    /\ c.index = PyNone
    /\ c.curr_value = PyNone
    /\ IsList(TargetOf(c))

\* call c is update(path, value, index=i) on a sequence whose element i
\* exists and is not the value
IndexUpdate(c) ==
    /\ c.op = "update"
    /\ c.curr_value = PyNone
    /\ c.index # PyNone
    /\ IsList(TargetOf(c))
    /\ ListPos(TargetOf(c), c.index[2]) # 0
    /\ TargetOf(c)[2][ListPos(TargetOf(c), c.index[2])] # c.value

\* C14: update(path, V) on a sequence, with no index and no curr_value,
\* leaves the document as it was and returns changed=false when V is an
\* element, and otherwise appends V and returns changed=true; a second
\* identical update changes nothing; update(path, V, index=i) with
\* entry[i] != V replaces element i, keeps the length and returns
\* changed=true.
C14_UpdateSequence ==
    /\ PlainUpdate(ylast)
           => IF IsElement(TargetOf(ylast), ylast.value)
              THEN /\ ~ylast.changed
                   /\ ~ylast.raised
                   /\ yaml_dict = ylast.before
              ELSE /\ ylast.changed
                   /\ ~ylast.raised
                   /\ yaml_dict =
                          SetAt(ylast.before, ylast.path,
                                PyList(Append(TargetOf(ylast)[2], ylast.value)))
    /\ (/\ Then("update", "update")
        /\ PlainUpdate(yprev)
        /\ PlainUpdate(ylast)
        /\ ylast.value = yprev.value)
           => ~ylast.changed /\ yaml_dict = ylast.before
    /\ IndexUpdate(ylast)
           => /\ ylast.changed
              /\ ~ylast.raised
              /\ yaml_dict =
                     SetAt(ylast.before, ylast.path,
                           ListSet(TargetOf(ylast),
                                   ListPos(TargetOf(ylast), ylast.index[2]),
                                   ylast.value))
              /\ PyLen(get_entry(yaml_dict, ylast.path, separator))
                     = PyLen(TargetOf(ylast))

C14_Witness ==
    /\ Then("update", "update")
    /\ yprev.before = D1("a", PyList(<<PyInt(1), PyInt(2)>>))
    /\ yprev.path = <<"a">>
    /\ PlainUpdate(yprev)
    /\ yprev.value = D1("b", PyInt(7))
    /\ yprev.changed
    /\ PlainUpdate(ylast)
    /\ ylast.value = yprev.value
    /\ ~ylast.changed
    /\ yaml_dict = D1("a", PyList(<<PyInt(1), PyInt(2), D1("b", PyInt(7))>>))

\* The value cannot be placed at segs[i..] under `data`: a segment with
\* segments left after it, or the parent of the last one, resolves to a
\* value that is no container of the kind the next segment needs, an index
\* is outside its sequence, or the last segment is an index the sequence
\* does not have.  A key that is missing (or holds None) can be created.
RECURSIVE Unplaceable(_, _, _)
Unplaceable(data, segs, i) ==
    LET seg == segs[i] IN
    IF seg.arr_ind # <<>>
    THEN IF IsList(data) /\ ListPos(data, IntOf(seg.arr_ind)) # 0
         THEN i < Len(segs)
              /\ Unplaceable(data[2][ListPos(data, IntOf(seg.arr_ind))],
                             segs, i + 1)
         ELSE TRUE
    ELSE IF ~IsDict(data) THEN TRUE
    ELSE IF i = Len(segs) THEN FALSE
    ELSE IF DictGet(data, seg.dict_key) = PyNone
    THEN Unplaceable(EmptyDict, segs, i + 1)
    ELSE Unplaceable(data[2][seg.dict_key], segs, i + 1)

\* call c is a put on a well-formed path at which the value cannot be placed
BlockedPut(c) ==
    /\ c.op = "put"
    /\ c.path # <<>>
    /\ valid_key(c.path, separator)
    /\ Unplaceable(c.before, parse_key(c.path, separator), 1)

\* C17, as the specification states it: a put that cannot place its value
\* (a scalar, also a falsy one, where a container is needed, an index
\* outside its sequence, a last index the sequence does not have) returns
\* changed=false and leaves the document as it was.
C17_PutRefusesUnplaceable ==
    BlockedPut(ylast)
    => /\ ~ylast.changed
       /\ ~ylast.raised
       /\ yaml_dict = ylast.before

\* segs[i..] cannot be resolved under `data`: a key is missing, a segment
\* is left at a value that is no container of its kind, or an index is
\* outside its sequence (negative indices count from the end)
RECURSIVE Unresolved(_, _, _)
Unresolved(data, segs, i) ==
    IF i > Len(segs) THEN FALSE
    ELSE LET seg == segs[i] IN
         IF seg.arr_ind # <<>>
         THEN IF IsList(data) /\ ListPos(data, IntOf(seg.arr_ind)) # 0
              THEN Unresolved(data[2][ListPos(data, IntOf(seg.arr_ind))],
                              segs, i + 1)
              ELSE TRUE
         ELSE IF IsDict(data) /\ HasKey(data, seg.dict_key)
         THEN Unresolved(data[2][seg.dict_key], segs, i + 1)
         ELSE TRUE

\* C18, as the specification states it: get on a well-formed path of which
\* a segment cannot be resolved (missing key, scalar with a segment left,
\* index outside the sequence, also a negative one) returns None and does
\* not raise.
C18_GetUnresolvedIsNone ==
    (/\ ylast.op = "get"
     /\ ylast.path # <<>>
     /\ valid_key(ylast.path, separator)
     /\ Unresolved(ylast.before, parse_key(ylast.path, separator), 1))
    => ~ylast.raised /\ ylast.ret = PyNone

\* C19, as the specification states it: get on a path string that the path
\* grammar does not match fails with an error and never answers None.
C19_MalformedPathIsError ==
    (/\ ylast.op = "get"
     /\ ylast.path # <<>>
     /\ ~valid_key(ylast.path, separator))
    => ylast.raised

-----------------------------------------------------------------------------
(* Properties of Utils.check_def_equal *)

\* every key the call skips: the two built in and the ones passed
SkippedBy(c) == DefaultSkip \cup c.skip_keys

IsScalar(v) == ~IsDict(v) /\ ~IsList(v)

\* a and b hold, at the same place and under no skipped key, two scalars
\* that differ
RECURSIVE LeafDiffers(_, _, _)
LeafDiffers(a, b, skip) ==
    IF IsDict(a) /\ IsDict(b)
    THEN \E k \in ((DOMAIN a[2]) \cap (DOMAIN b[2])) \ skip :
             LeafDiffers(a[2][k], b[2][k], skip)
    ELSE IF IsList(a) /\ IsList(b)
    THEN \E i \in 1..PyLen(a) :
             i <= PyLen(b) /\ LeafDiffers(a[2][i], b[2][i], skip)
    ELSE IsScalar(a) /\ IsScalar(b) /\ a # b

\* C11: when the two documents hold different scalars at the same place,
\* under mappings or inside sequence elements at any depth, and no key on
\* the way to it is skipped, check_def_equal returns false.
C11_LeafDifferenceIsUnequal ==
    (cmp.returned /\ LeafDiffers(cmp.user_def, cmp.result_def, SkippedBy(cmp)))
    => ~cmp.equal

C11_Witness ==
    /\ cmp.returned
    /\ cmp.user_def = D1("a", PyList(<<PyInt(1), D1("x", PyInt(1))>>))
    /\ cmp.result_def = D1("a", PyList(<<PyInt(1), D1("x", PyInt(2))>>))
    /\ cmp.skip_keys = {}
    /\ ~cmp.equal

\* C12: check_def_equal(D, D) with no extra skip keys returns true.
C12_Reflexive ==
    (cmp.returned /\ cmp.user_def = cmp.result_def /\ cmp.skip_keys = {})
    => cmp.equal

C12_Witness ==
    /\ cmp.returned
    /\ cmp.user_def = D1("a", PyList(<<D1("x", PyInt(1)), PyInt(2)>>))
    /\ cmp.result_def = cmp.user_def
    /\ cmp.skip_keys = {}
    /\ cmp.equal

\* the value without the skipped keys, wherever they occur in it
RECURSIVE Strip(_, _)
Strip(v, skip) ==
    IF IsDict(v)
    THEN PyDict([k \in (DOMAIN v[2]) \ skip |-> Strip(v[2][k], skip)])
    ELSE IF IsList(v)
    THEN PyList([i \in 1..PyLen(v) |-> Strip(v[2][i], skip)])
    ELSE v

\* C13, as the specification states it: when the two documents differ only
\* in skipped keys (missing on one side or holding different values),
\* wherever those keys occur, check_def_equal returns true.
C13_SkippedKeysIgnored ==
    (/\ cmp.returned
     /\ Strip(cmp.user_def, SkippedBy(cmp)) = Strip(cmp.result_def, SkippedBy(cmp)))
    => cmp.equal

\* the pairwise rule for the observed sequence under `key`
PairwiseEqual(u, r, key, skip_keys) ==
    /\ HasKey(u, key)
    /\ IsList(u[2][key])
    /\ PyLen(u[2][key]) = PyLen(r[2][key])
    /\ \A i \in 1..PyLen(r[2][key]) :
           IF IsDict(u[2][key][2][i]) /\ IsDict(r[2][key][2][i])
           THEN check_def_equal(u[2][key][2][i], r[2][key][2][i], skip_keys)
           ELSE u[2][key][2][i] = r[2][key][2][i]

\* the observed keys that are compared
ComparedKeys(c) == (DOMAIN c.result_def[2]) \ SkippedBy(c)

\* C20, as the specification states it: when every compared observed key
\* holds a sequence, check_def_equal returns true exactly when desired has
\* each of them with a sequence of the same length whose elements match
\* pairwise in order, a mapping/mapping pair by recursion under the skip
\* set and every other pair by equality of that pair alone.
C20_SequencesPairwise ==
    (/\ cmp.returned
     /\ \A k \in ComparedKeys(cmp) : IsList(cmp.result_def[2][k]))
    => (cmp.equal <=>
            \A k \in ComparedKeys(cmp) :
                PairwiseEqual(cmp.user_def, cmp.result_def, k, cmp.skip_keys))

\* the keys of a mapping that are compared under `skip`
KeySet(v, skip) == (DOMAIN v[2]) \ skip

\* desired has, under `key`, a mapping with the key set of the observed one
SameKeySet(u, r, key, skip) ==
    /\ HasKey(u, key)
    /\ IsDict(u[2][key])
    /\ KeySet(u[2][key], skip) = KeySet(r[2][key], skip)

\* C21: when a compared observed key holds a mapping, check_def_equal
\* returns false unless desired has that key with a mapping whose key set,
\* skipped keys removed on both sides, equals the observed one's.
C21_MappingKeySetsMatch ==
    (/\ cmp.returned
     /\ \E k \in ComparedKeys(cmp) :
            /\ IsDict(cmp.result_def[2][k])
            /\ ~SameKeySet(cmp.user_def, cmp.result_def, k, SkippedBy(cmp)))
    => ~cmp.equal

C21_Witness ==
    /\ cmp.returned
    /\ cmp.user_def = D1("a", D2("x", PyInt(1), "y", PyInt(2)))
    /\ cmp.result_def = D1("a", D1("x", PyInt(1)))
    /\ cmp.skip_keys = {}
    /\ ~cmp.equal

\* desired has every compared key of observed with the same value, and at
\* least one compared key more at the top level
ExtraTopLevelKeys(c) ==
    /\ ComparedKeys(c) \subseteq DOMAIN c.user_def[2]
    /\ \A k \in ComparedKeys(c) : c.user_def[2][k] = c.result_def[2][k]
    /\ KeySet(c.user_def, SkippedBy(c)) \ DOMAIN c.result_def[2] # {}

\* C22: when every compared key of observed is matched by desired, keys
\* that only desired has at the top level do not make check_def_equal
\* return false.
C22_ExtraDesiredKeysIgnored ==
    (cmp.returned /\ ExtraTopLevelKeys(cmp)) => cmp.equal

C22_Witness ==
    /\ cmp.returned
    /\ cmp.user_def = D2("a", PyList(<<PyInt(1), PyInt(2)>>), "b", D1("x", PyInt(1)))
    /\ cmp.result_def = D1("a", PyList(<<PyInt(1), PyInt(2)>>))
    /\ cmp.skip_keys = {}
    /\ cmp.equal

\* under `key` both sides hold a list, and at some position both hold a
\* mapping of which the desired one has a compared key the observed lacks
ElementKeyMissing(u, r, key, skip) ==
    /\ IsList(r[2][key])
    /\ HasKey(u, key)
    /\ IsList(u[2][key])
    /\ \E i \in 1..PyLen(r[2][key]) :
           /\ i <= PyLen(u[2][key])
           /\ IsDict(u[2][key][2][i])
           /\ IsDict(r[2][key][2][i])
           /\ ~(KeySet(u[2][key][2][i], skip) \subseteq DOMAIN r[2][key][2][i][2])

\* C29, as the claim states it: when a desired mapping that is an element
\* of a sequence has a compared key that the observed element at the same
\* position lacks, check_def_equal returns false.
C29_ElementKeySetsMatch ==
    (/\ cmp.returned
     /\ \E k \in ComparedKeys(cmp) :
            ElementKeyMissing(cmp.user_def, cmp.result_def, k, SkippedBy(cmp)))
    => ~cmp.equal

\* call c is update(path, value) on a path that resolves to a mapping
MappingUpdate(c) == c.op = "update" /\ IsDict(TargetOf(c))

\* the mapping t with every key of the mapping v set to v's value
Merged(t, v) ==
    PyDict([k \in (DOMAIN t[2]) \cup (DOMAIN v[2]) |->
               IF k \in DOMAIN v[2] THEN v[2][k] ELSE t[2][k]])

\* C23: update on a mapping target with a mapping value merges the value
\* into the target, key by key, and returns changed=true, also when the
\* merge changes nothing; with a value that is no mapping it raises and
\* the document is as it was.
C23_UpdateMapping ==
    MappingUpdate(ylast)
        => IF IsDict(ylast.value)
           THEN /\ ylast.changed
                /\ ~ylast.raised
                /\ yaml_dict = SetAt(ylast.before, ylast.path,
                                     Merged(TargetOf(ylast), ylast.value))
           ELSE /\ ylast.raised
                /\ yaml_dict = ylast.before

\* a merge that changed nothing and reported changed=true
C23_Witness ==
    /\ MappingUpdate(ylast)
    /\ IsDict(ylast.value)
    /\ yaml_dict = ylast.before
    /\ ylast.changed

\* call c is append(path, value)
AppendCall(c) == c.op = "append"

\* the three cases of append, by what the path resolved to
AppendToNothing(c) == AppendCall(c) /\ TargetOf(c) = PyNone
AppendToOther(c) ==
    /\ AppendCall(c)
    /\ TargetOf(c) # PyNone
    /\ ~IsRaised(TargetOf(c))
    /\ ~IsList(TargetOf(c))
AppendToList(c) == AppendCall(c) /\ IsList(TargetOf(c))

\* C24, as the specification states it: append on a path that resolves to
\* nothing creates a sequence there that holds the value and returns
\* changed=true; on a value that is no sequence it returns changed=false
\* and leaves the document as it was; on a sequence it adds the value at
\* the end, whether or not it is an element already, and returns
\* changed=true.
C24_Append ==
    /\ AppendToNothing(ylast)
           => /\ ylast.changed
              /\ ~ylast.raised
              /\ get_entry(yaml_dict, ylast.path, separator) = PyList(<<ylast.value>>)
    /\ AppendToOther(ylast)
           => /\ ~ylast.changed
              /\ ~ylast.raised
              /\ yaml_dict = ylast.before
    /\ AppendToList(ylast)
           => /\ ylast.changed
              /\ ~ylast.raised
              /\ yaml_dict =
                     SetAt(ylast.before, ylast.path,
                           PyList(Append(TargetOf(ylast)[2], ylast.value)))

-----------------------------------------------------------------------------
(* More properties of Router.run_ansible *)

\* the dry-run render of this pass holds no Secret document
NoSecretRendered == "Secret" \notin cluster.rendered

\* C25, as the specification states it: when the dry-run render holds no
\* Secret, a pass without edits still completes: prepare_router gives its
\* bundle and needs_update its answer, and no AttributeError for the
\* missing document leaves run_ansible.
C25_PassWithoutRenderedSecret ==
    (pc = "done" /\ NoSecretRendered /\ params.edits = <<>>)
        => outcome.exc # "AttributeError"

\* C27: in check mode run_ansible issues no create and no delete call,
\* whatever the requested state, the live parts and the drift.
C27_CheckModeIssuesNoCall == params.check_mode => calls = <<>>

\* a check-mode pass that found drift and said it would update
C27_Witness ==
    /\ pc = "done"
    /\ params.check_mode
    /\ UpdatePass
    /\ outcome = ReturnedCheck(FALSE)
    /\ calls = <<>>

\* C28, as the claim states it: with state=absent and not in check mode, a
\* pass that began with at least one managed part live issues the delete
\* calls, so none is left behind by a pass that reports changed=false.
C28_AbsentDeletesWhatIsLive ==
    (/\ pc = "done"
     /\ params.state = "absent"
     /\ ~params.check_mode
     /\ cluster.present # {})
    => /\ calls # <<>>
       /\ outcome.changed

-----------------------------------------------------------------------------
(* Properties of the wrappers *)

\* the last call made on the wrapper, and what a path read before it
LastCall == wrap.calls[Len(wrap.calls)]
Was(op) == Len(wrap.calls) > 0 /\ LastCall.op = op
Before(path) == YeditGet(LastCall.before, path)
Now(path) == YeditGet(wrap.yaml_dict, path)

\* the call was made with one name, and the list at `path` held an entry
\* of that name first at index idx (-1: no entry)
NameAt(path, idx) ==
    /\ Len(LastCall.args) >= 1
    /\ IsList(Before(path))
    /\ NamedIdx(Before(path), LastCall.args[1]) = idx

\* the positions of the list l whose entry is named n
NamedPositions(l, n) == {i \in 1..PyLen(l) : l[2][i][2]["name"] = n}

\* C26, as the specification states it: delete_env_var(k) and
\* delete_secret(s) remove the entry of that name and return true when it
\* is the first element of the list, and remove nothing when no entry has
\* the name; update_env_var(k, v) with k first in the list leaves exactly
\* one entry named k, with the value v.
C26_PositionZero ==
    /\ (Was("delete_env_var") /\ Len(LastCall.args) = 1)
           => /\ NameAt(env_path, 0)
                     => /\ LastCall.ret = "True"
                        /\ Now(env_path) = ListDel(Before(env_path), 1)
              /\ NameAt(env_path, 0 - 1)
                     => wrap.yaml_dict = LastCall.before
    /\ (Was("delete_secret") /\ Len(wrap.calls) = 1)
           => /\ NameAt(secrets_path, 0)
                     => /\ LastCall.ret = "True"
                        /\ Now(secrets_path) = ListDel(Before(secrets_path), 1)
              /\ NameAt(secrets_path, 0 - 1)
                     => wrap.yaml_dict = LastCall.before
    /\ (Was("update_env_var") /\ NameAt(env_path, 0))
           => /\ IsList(Now(env_path))
              /\ \E i \in 1..PyLen(Now(env_path)) :
                     /\ NamedPositions(Now(env_path), LastCall.args[1]) = {i}
                     /\ Now(env_path)[2][i][2]["value"] = LastCall.args[2]

\* the calls that add an item, and the property each of them adds to
AddOps ==
    {"add_subject", "add_group_names", "add_user_name", "add_secret",
     "add_image_pull_secret"}
FieldOf(c) ==
    CASE c.op = "add_subject" -> "subjects"
      [] c.op = "add_group_names" -> "groupNames"
      [] c.op = "add_user_name" -> "userNames"
      [] c.op = "add_image_pull_secret" -> "imagePullSecrets"
      [] wrap.kind = "Secret" -> "data"
      [] OTHER -> "secrets"

\* what call c added is in the document, as Yedit.get reads it
Present(c) ==
    IF wrap.kind = "Secret"
    THEN /\ IsDict(Now(secret_path))
         /\ HasKey(Now(secret_path), c.args[1][2])
         /\ Now(secret_path)[2][c.args[1][2]] = c.args[2]
    ELSE /\ IsList(Now(PathOf(FieldOf(c))))
         /\ IsElement(Now(PathOf(FieldOf(c))),
                      IF wrap.kind = "ServiceAccount"
                      THEN D1("name", c.args[1]) ELSE c.args[1])

OnlyAdds ==
    /\ wrap.kind \in {"RoleBinding", "Secret", "ServiceAccount"}
    /\ \A i \in 1..Len(wrap.calls) : wrap.calls[i].op \in AddOps

\* C30, as the claim states it: after any sequence of add calls on a
\* RoleBinding, Secret or ServiceAccount, every item added so far is in
\* the wrapper's document.
C30_AddsAreKept ==
    OnlyAdds => \A i \in 1..Len(wrap.calls) : Present(wrap.calls[i])

====
